---- MODULE Spec2Model ----
(***************************************************************************)
(* A model of the file-system tool catalogue of                            *)
(* src/src/agent/tools/filesystem.rs: file_edit (substring and hashline    *)
(* modes), file_create, file_delete, file_move, file_info,                 *)
(* directory_create and file_copy, over an abstract disk.                  *)
(*                                                                         *)
(* Text is a sequence of byte values (all ASCII, so a byte is a char);     *)
(* a path is the sequence of its components; a JSON value is a record      *)
(* [t, v] whose t is its JSON type ("absent" when the key is missing).     *)
(***************************************************************************)
EXTENDS Integers, Sequences, FiniteSets, TLC

VARIABLES fs, last, obs, made, tasks

vars == <<fs, last, obs, made, tasks>>

-----------------------------------------------------------------------------
(* Bounds of the model *)

\* longest file content the disk starts with, in bytes
MaxLen == 3

\* invocations that may be under way at once
MaxTasks == 2

-----------------------------------------------------------------------------
(* Text: Rust's str operations used by the tools *)

\* the bytes texts are made of: line feed, '$' and 'a'
Bytes == {10, 36, 97}

RECURSIVE TextsOfLen(_)
TextsOfLen(n) ==
    IF n = 0 THEN {<<>>}
    ELSE {Append(s, b) : s \in TextsOfLen(n - 1), b \in Bytes}

TextsUpTo(n) == UNION {TextsOfLen(k) : k \in 0..n}

\* s[from..] of Rust
Drop(s, n) == SubSeq(s, n + 1, Len(s))

Take(s, n) == SubSeq(s, 1, n)

StartsWith(s, pat) == Len(pat) <= Len(s) /\ Take(s, Len(pat)) = pat

\* index of the first line feed of s, 0 when there is none
RECURSIVE FirstLF(_, _)
FirstLF(s, i) ==
    IF i > Len(s) THEN 0
    ELSE IF s[i] = 10 THEN i
    ELSE FirstLF(s, i + 1)

\* str::split_inclusive('\n'): every piece but possibly the last ends in \n
RECURSIVE SplitInclusive(_)
SplitInclusive(s) ==
    IF s = <<>> THEN <<>>
    ELSE LET i == FirstLF(s, 1)
         IN IF i = 0 THEN <<s>>
            ELSE <<Take(s, i)>> \o SplitInclusive(Drop(s, i))

\* what str::lines() maps each piece to: strip one trailing \n, then, only
\* when a \n was stripped, one trailing \r
StripLineEnding(piece) ==
    IF piece # <<>> /\ piece[Len(piece)] = 10
    THEN LET l == Take(piece, Len(piece) - 1)
         IN IF l # <<>> /\ l[Len(l)] = 13 THEN Take(l, Len(l) - 1) ELSE l
    ELSE piece

\* split('\n') instead: a line feed at the end opens one more, empty line
Lines_SplitOnLF(s) ==
    LET ps == SplitInclusive(s)
        ls == [i \in 1..Len(ps) |-> StripLineEnding(ps[i])]
    IN IF s = <<>> \/ s[Len(s)] = 10 THEN Append(ls, <<>>) ELSE ls

\* str::lines().collect()
Lines(s) ==
    LET ps == SplitInclusive(s)
    IN [i \in 1..Len(ps) |-> StripLineEnding(ps[i])]

\* every line is written with a line feed after it, the last one too
RECURSIVE JoinLF_Terminated(_)
JoinLF_Terminated(ls) ==
    IF ls = <<>> THEN <<>>
    ELSE ls[1] \o <<10>> \o JoinLF_Terminated(Tail(ls))

\* [&str]::join("\n")
RECURSIVE JoinLF(_)
JoinLF(ls) ==
    IF ls = <<>> THEN <<>>
    ELSE IF Len(ls) = 1 THEN ls[1]
    ELSE ls[1] \o <<10>> \o JoinLF(Tail(ls))

\* str::matches(pat).count(): matches are found left to right and do not
\* overlap; the empty pattern matches at every char boundary
RECURSIVE MatchesCount(_, _)
MatchesCount(s, pat) ==
    IF pat = <<>> THEN Len(s) + 1
    ELSE IF Len(s) < Len(pat) THEN 0
    ELSE IF StartsWith(s, pat) THEN 1 + MatchesCount(Drop(s, Len(pat)), pat)
    ELSE MatchesCount(Tail(s), pat)

\* str::replacen(pat, to, n): the first n matches replaced
RECURSIVE ReplaceN(_, _, _, _)
ReplaceN(s, pat, to, n) ==
    IF n = 0 THEN s
    ELSE IF pat = <<>>
    THEN to \o (IF s = <<>> THEN <<>>
                ELSE <<Head(s)>> \o ReplaceN(Tail(s), pat, to, n - 1))
    ELSE IF Len(s) < Len(pat) THEN s
    ELSE IF StartsWith(s, pat)
    THEN to \o ReplaceN(Drop(s, Len(pat)), pat, to, n - 1)
    ELSE <<Head(s)>> \o ReplaceN(Tail(s), pat, to, n)

\* str::replace(pat, to): every match replaced
Replace(s, pat, to) == ReplaceN(s, pat, to, Len(s) + 1)

-----------------------------------------------------------------------------
(* The line fingerprint *)

\* a ^ b on non-negative integers
RECURSIVE BitXor(_, _)
BitXor(a, b) ==
    IF a = 0 THEN b
    ELSE IF b = 0 THEN a
    ELSE ((a + b) % 2) + 2 * BitXor(a \div 2, b \div 2)

\* The u32 accumulator is kept as its two 16-bit halves [hi, lo], so that
\* every intermediate product stays below 2^31.
\* 2166136261u32 = 0x811C9DC5
FnvSeedHi == 33052
FnvSeedLo == 40389
\* 16777619u32 = 0x01000193 = FnvPrimeHi * 2^16 + FnvPrimeLo
FnvPrimeHi == 256
FnvPrimeLo == 403

\* hash.wrapping_mul(16777619u32)
WrappingMulPrime(h) ==
    LET low == h.lo * FnvPrimeLo
        mid == h.hi * FnvPrimeLo + h.lo * FnvPrimeHi + (low \div 65536)
    IN [hi |-> mid % 65536, lo |-> low % 65536]

\* hash ^= byte as u32
XorByte(h, byte) == [hi |-> h.hi, lo |-> BitXor(h.lo, byte)]

RECURSIVE FnvFold(_, _)
FnvFold(h, line) ==
    IF line = <<>> THEN h
    ELSE FnvFold(XorByte(WrappingMulPrime(h), Head(line)), Tail(line))

HexDigit(d) == <<"0", "1", "2", "3", "4", "5", "6", "7",
                 "8", "9", "a", "b", "c", "d", "e", "f">>[d + 1]

\* lowercase hexadecimal without padding
RECURSIVE HexOf(_)
HexOf(n) ==
    IF n < 16 THEN <<HexDigit(n)>>
    ELSE Append(HexOf(n \div 16), HexDigit(n % 16))

\* format!("{:02x}", n): padded with zeros to at least two digits
FormatHex02(n) ==
    LET h == HexOf(n) IN IF Len(h) < 2 THEN <<"0">> \o h ELSE h

\* hash & 0xFF: the "2-char hash" of the parameter's description
Mask12_TwoChars(h) == h.lo % 256

\* hash & 0xFFF
Mask12(h) == h.lo % 4096

compute_line_hash(line) ==
    FormatHex02(Mask12(FnvFold([hi |-> FnvSeedHi, lo |-> FnvSeedLo], line)))

-----------------------------------------------------------------------------
(* The disk: std::fs / tokio::fs as the tools use them *)

TopNames == {"p", "q"}
SubNames == {"c", "e"}

\* the paths of the model, relative to the working directory
Paths == {<<t>> : t \in TopNames} \cup {<<t, n>> : t \in TopNames, n \in SubNames}

NoEntry == [kind |-> "none", content |-> <<>>]
DirEntry == [kind |-> "dir", content |-> <<>>]
FileEntry(c) == [kind |-> "file", content |-> c]

\* Path::parent: of a single component it is the empty path ""
Parent(p) == Take(p, Len(p) - 1)

IsPrefix(p, q) == Len(p) <= Len(q) /\ Take(q, Len(p)) = p

\* Path::exists, is_file, is_dir: all false of the empty path ""
Exists(disk, p) == p \in Paths /\ disk[p].kind # "none"
IsFile(disk, p) == p \in Paths /\ disk[p].kind = "file"
IsDir(disk, p) == p \in Paths /\ disk[p].kind = "dir"

\* the directory an entry p is made in is there ("" is the working directory)
ParentIsDir(disk, p) == Parent(p) = <<>> \/ IsDir(disk, Parent(p))

Children(disk, p) == {q \in Paths : Parent(q) = p /\ disk[q].kind # "none"}

\* every entry lies in a directory
WellFormed(disk) == \A p \in Paths : disk[p].kind # "none" => ParentIsDir(disk, p)

IoOk(disk) == [ok |-> TRUE, disk |-> disk]
IoErr(disk) == [ok |-> FALSE, disk |-> disk]

\* tokio::fs::read_to_string
ReadToString(disk, p) ==
    IF IsFile(disk, p) THEN [ok |-> TRUE, content |-> disk[p].content]
    ELSE [ok |-> FALSE, content |-> <<>>]

\* tokio::fs::write: creates or truncates the file, never a directory
WriteFile(disk, p, data) ==
    IF p \in Paths /\ ParentIsDir(disk, p) /\ ~IsDir(disk, p)
    THEN IoOk([disk EXCEPT ![p] = FileEntry(data)])
    ELSE IoErr(disk)

\* create_dir instead: the parent must be there already
CreateDirAll_OneLevel(disk, p) ==
    IF p = <<>> THEN IoOk(disk)
    ELSE IF p \notin Paths \/ ~ParentIsDir(disk, p) \/ disk[p].kind # "none"
    THEN IoErr(disk)
    ELSE IoOk([disk EXCEPT ![p] = DirEntry])

\* tokio::fs::create_dir_all: Ok on the empty path and on a directory, an
\* error when a component is a file
CreateDirAll(disk, p) ==
    IF p = <<>> THEN IoOk(disk)
    ELSE IF p \notin Paths \/ \E q \in Paths : IsPrefix(q, p) /\ IsFile(disk, q)
    THEN IoErr(disk)
    ELSE IoOk([q \in Paths |-> IF IsPrefix(q, p) THEN DirEntry ELSE disk[q]])

\* tokio::fs::remove_file
RemoveFile(disk, p) ==
    IF IsFile(disk, p) THEN IoOk([disk EXCEPT ![p] = NoEntry]) ELSE IoErr(disk)

\* tokio::fs::remove_dir: only an empty directory
RemoveDir(disk, p) ==
    IF IsDir(disk, p) /\ Children(disk, p) = {}
    THEN IoOk([disk EXCEPT ![p] = NoEntry])
    ELSE IoErr(disk)

\* tokio::fs::remove_dir_all
RemoveDirAll(disk, p) ==
    IF IsDir(disk, p)
    THEN IoOk([q \in Paths |-> IF IsPrefix(p, q) THEN NoEntry ELSE disk[q]])
    ELSE IoErr(disk)

\* where rename(src, dst) takes the entry at q, which lies under src
Moved(src, dst, q) == dst \o Drop(q, Len(src))

\* tokio::fs::rename (rename(2)): a directory does not move into itself, a
\* file does not replace a directory nor a directory a file or a non-empty
\* directory; anything else at dst is replaced
Rename(disk, src, dst) ==
    IF ~Exists(disk, src) \/ dst \notin Paths \/ ~ParentIsDir(disk, dst) THEN IoErr(disk)
    ELSE IF src = dst THEN IoOk(disk)
    ELSE IF IsPrefix(src, dst) \/ IsPrefix(dst, src) THEN IoErr(disk)
    ELSE IF IsDir(disk, dst) /\ (IsFile(disk, src) \/ Children(disk, dst) # {}) THEN IoErr(disk)
    ELSE IF IsFile(disk, dst) /\ IsDir(disk, src) THEN IoErr(disk)
    ELSE IoOk([q \in Paths |->
                 IF IsPrefix(dst, q)
                 THEN LET from == src \o Drop(q, Len(dst))
                      IN IF from \in Paths THEN disk[from] ELSE NoEntry
                 ELSE IF IsPrefix(src, q) THEN NoEntry
                 ELSE disk[q]])

\* whether the model has the paths rename(src, dst) moves entries to
RenameFits(disk, src, dst) ==
    \A q \in Paths : (IsPrefix(src, q) /\ disk[q].kind # "none") => Moved(src, dst, q) \in Paths

\* tokio::fs::copy: the source must be a regular file; the destination is
\* opened truncating, so copying a file onto itself may empty it (selfTrunc
\* is the platform's choice there)
CopyFile(disk, src, dst, selfTrunc) ==
    IF ~IsFile(disk, src) THEN [ok |-> FALSE, disk |-> disk, bytes |-> 0]
    ELSE IF src = dst
    THEN IF selfTrunc
         THEN [ok |-> TRUE, disk |-> [disk EXCEPT ![dst] = FileEntry(<<>>)], bytes |-> 0]
         ELSE [ok |-> TRUE, disk |-> disk, bytes |-> Len(disk[src].content)]
    ELSE LET w == WriteFile(disk, dst, disk[src].content)
         IN [ok |-> w.ok, disk |-> w.disk,
             bytes |-> IF w.ok THEN Len(disk[src].content) ELSE 0]

-----------------------------------------------------------------------------
(* The argument bundle: serde_json::Value *)

Keys == {"path", "old_string", "new_string", "replace_all", "line_number", "hash",
         "content", "overwrite", "recursive", "source", "destination"}

Absent == [t |-> "absent", v |-> 0]
Null == [t |-> "null", v |-> 0]
Str(s) == [t |-> "str", v |-> s]
Num(n) == [t |-> "num", v |-> n]
Bool(b) == [t |-> "bool", v |-> b]

\* the bundle with the fields of the record given, every other key missing
Bundle(given) == [k \in Keys |-> IF k \in DOMAIN given THEN given[k] ELSE Absent]

\* Value::as_str, as_u64, as_bool: Some exactly on a value of that type
IsStr(v) == v.t = "str"
IsU64(v) == v.t = "num" /\ v.v >= 0
IsBool(v) == v.t = "bool"
\* Value::get(key).is_some(): the key is there, whatever its value
IsPresent(v) == v.t # "absent"
\* as_bool().unwrap_or(false)
BoolOrFalse(v) == IF IsBool(v) THEN v.v ELSE FALSE

-----------------------------------------------------------------------------
(* Results: Result<ToolResult, ToolError> with the disk left behind and   *)
(* the file-system calls made, in order                                    *)

NoData == [none |-> TRUE]

Ok(disk, io, data) ==
    [kind |-> "Ok", msg |-> "", disk |-> disk, io |-> io, data |-> data]

InvalidParameters(msg, disk, io) ==
    [kind |-> "InvalidParameters", msg |-> msg, disk |-> disk, io |-> io, data |-> NoData]

ExecutionFailed(msg, disk, io) ==
    [kind |-> "ExecutionFailed", msg |-> msg, disk |-> disk, io |-> io, data |-> NoData]

-----------------------------------------------------------------------------
(* file_edit *)

\* hashline mode: the keys line_number and hash are both there
hashline_mode(params) == IsPresent(params.line_number) /\ IsPresent(params.hash)

\* usize::wrapping_sub(1): line number 0 is far beyond every file
SaturatingPred_Wrapping(n) == IF n = 0 THEN 2147483647 ELSE n - 1

\* the line number taken as an index from 0
SaturatingPred_None(n) == n

\* usize::saturating_sub(1)
SaturatingPred(n) == IF n = 0 THEN 0 ELSE n - 1

Computed(kind, msg, new_content) ==
    [kind |-> kind, msg |-> msg, new_content |-> new_content]

\* the range error is reported as an error of the arguments
LineOutOfRange_AsInvalid ==
    [kind |-> "InvalidParameters", msg |-> "Line does not exist", new_content |-> <<>>]

\* Err(ToolError::ExecutionFailed("Line {} does not exist ..."))
LineOutOfRange == Computed("ExecutionFailed", "Line does not exist", <<>>)

\* every fingerprint is taken for the line's own
HashDiffers_Never(current_hash, hash) == FALSE

\* current_hash != hash
HashDiffers(current_hash, hash) == current_hash # hash

\* the hashline branch, from the content read
HashlineEdit(params, content) ==
    IF ~IsU64(params.line_number)
    THEN Computed("InvalidParameters", "line_number must be a number", <<>>)
    ELSE IF ~IsStr(params.hash)
    THEN Computed("InvalidParameters", "hash must be a string", <<>>)
    ELSE LET lines == Lines(content)
             line_idx == SaturatingPred(params.line_number.v)
         IN IF line_idx >= Len(lines)
            THEN LineOutOfRange
            ELSE IF HashDiffers(compute_line_hash(lines[line_idx + 1]), params.hash.v)
            THEN Computed("ExecutionFailed", "Hash mismatch", <<>>)
            ELSE Computed("Ok", "",
                          JoinLF([lines EXCEPT ![line_idx + 1] = params.new_string.v]))

\* several matches are not refused
Ambiguous_Never(count, replace_all) == FALSE

\* count > 1 && !replace_all
Ambiguous(count, replace_all) == count > 1 /\ ~replace_all

\* the str_replace branch, from the content read
StrReplaceEdit(params, content) ==
    IF ~IsStr(params.old_string)
    THEN Computed("InvalidParameters", "old_string is required", <<>>)
    ELSE LET old_string == params.old_string.v
             new_string == params.new_string.v
             replace_all == BoolOrFalse(params.replace_all)
             count == MatchesCount(content, old_string)
         IN IF old_string = new_string
            THEN Computed("InvalidParameters", "old_string and new_string must be different", <<>>)
            ELSE IF count = 0
            THEN Computed("ExecutionFailed", "old_string not found", <<>>)
            ELSE IF Ambiguous(count, replace_all)
            THEN Computed("ExecutionFailed", "old_string found several times", <<>>)
            ELSE Computed("Ok", "",
                          IF replace_all THEN Replace(content, old_string, new_string)
                          ELSE ReplaceN(content, old_string, new_string, 1))

\* new_content, or the error that ends the call, from the content read
EditCompute(params, content) ==
    IF hashline_mode(params) THEN HashlineEdit(params, content)
    ELSE StrReplaceEdit(params, content)

\* the edit is worked out from the file as it is when the write is due
FileEditFinish_Rereading(params, content, disk) ==
    LET c == EditCompute(params, ReadToString(disk, params.path.v).content)
    IN IF c.kind = "InvalidParameters" THEN InvalidParameters(c.msg, disk, <<"read">>)
       ELSE IF c.kind = "ExecutionFailed" THEN ExecutionFailed(c.msg, disk, <<"read">>)
       ELSE Ok(WriteFile(disk, params.path.v, c.new_content).disk, <<"read", "write">>,
               [mode |-> "reread"])

\* the call from the point where read_to_string has returned content: the
\* rest of the validation, then the write to the disk as it is by then
FileEditFinish(params, content, disk) ==
    LET c == EditCompute(params, content)
    IN IF c.kind = "InvalidParameters" THEN InvalidParameters(c.msg, disk, <<"read">>)
       ELSE IF c.kind = "ExecutionFailed" THEN ExecutionFailed(c.msg, disk, <<"read">>)
       ELSE LET w == WriteFile(disk, params.path.v, c.new_content)
            IN IF ~w.ok THEN ExecutionFailed("write failed", disk, <<"read", "write">>)
               ELSE Ok(w.disk, <<"read", "write">>,
                       [mode |-> IF hashline_mode(params) THEN "hashline" ELSE "str_replace",
                        replacements |-> 1,
                        total_lines |-> Len(Lines(c.new_content))])

\* whether the call gets as far as read_to_string
EditArgsOk(params) == IsStr(params.path) /\ IsStr(params.new_string)

\* a call that fails its validation writes the content back as it read it
FileEditExec_WritesBack(params, disk) ==
    IF ~EditArgsOk(params) THEN InvalidParameters("path or new_string", disk, <<>>)
    ELSE LET r == ReadToString(disk, params.path.v)
         IN IF ~r.ok THEN ExecutionFailed("read failed", disk, <<"read">>)
            ELSE LET f == FileEditFinish(params, r.content, disk)
                 IN IF f.kind = "Ok" THEN f ELSE [f EXCEPT !.io = <<"read", "write">>]

\* FileEditTool::execute, run without interruption
FileEditExec(params, disk) ==
    IF ~IsStr(params.path) THEN InvalidParameters("path is required", disk, <<>>)
    ELSE IF ~IsStr(params.new_string)
    THEN InvalidParameters("new_string is required", disk, <<>>)
    ELSE LET r == ReadToString(disk, params.path.v)
         IN IF ~r.ok THEN ExecutionFailed("read failed", disk, <<"read">>)
            ELSE FileEditFinish(params, r.content, disk)

-----------------------------------------------------------------------------
(* file_create *)

\* overwrite is not honoured
CreateRefuses_IgnoringOverwrite(disk, path, overwrite) == Exists(disk, path)

\* path_buf.exists() && !overwrite
CreateRefuses(disk, path, overwrite) == Exists(disk, path) /\ ~overwrite

\* FileCreateTool::execute
FileCreateExec(params, disk) ==
    IF ~IsStr(params.path) THEN InvalidParameters("path is required", disk, <<>>)
    ELSE IF ~IsStr(params.content)
    THEN InvalidParameters("content is required", disk, <<>>)
    ELSE LET path == params.path.v
             content == params.content.v
             overwrite == BoolOrFalse(params.overwrite)
         IN IF CreateRefuses(disk, path, overwrite)
            THEN ExecutionFailed("already exists", disk, <<"exists">>)
            ELSE LET mk == ~Exists(disk, Parent(path))
                     d == IF mk THEN CreateDirAll(disk, Parent(path)) ELSE IoOk(disk)
                     io == IF mk THEN <<"exists", "exists", "create_dir_all">>
                           ELSE <<"exists", "exists">>
                 IN IF ~d.ok THEN ExecutionFailed("cannot create parent", disk, io)
                    ELSE LET w == WriteFile(d.disk, path, content)
                         IN IF ~w.ok
                            THEN ExecutionFailed("cannot create file", d.disk, Append(io, "write"))
                            ELSE Ok(w.disk, Append(io, "write"),
                                    [bytes |-> Len(content),
                                     lines |-> Len(Lines(content)),
                                     created |-> TRUE])

-----------------------------------------------------------------------------
(* file_delete *)

\* the recursive flag is not consulted
DeleteDirectory_AlwaysRecursive(disk, path, recursive) == RemoveDirAll(disk, path)

\* remove_dir_all when recursive, remove_dir otherwise
DeleteDirectory(disk, path, recursive) ==
    IF recursive THEN RemoveDirAll(disk, path) ELSE RemoveDir(disk, path)

\* FileDeleteTool::execute
FileDeleteExec(params, disk) ==
    IF ~IsStr(params.path) THEN InvalidParameters("path is required", disk, <<>>)
    ELSE LET path == params.path.v
             recursive == BoolOrFalse(params.recursive)
         IN IF ~Exists(disk, path)
            THEN ExecutionFailed("does not exist", disk, <<"exists">>)
            ELSE IF IsFile(disk, path)
            THEN LET r == RemoveFile(disk, path)
                     io == <<"exists", "is_file", "remove_file">>
                 IN IF ~r.ok THEN ExecutionFailed("cannot delete", disk, io)
                    ELSE Ok(r.disk, io, [type |-> "file", recursive |-> FALSE])
            ELSE IF IsDir(disk, path)
            THEN LET r == DeleteDirectory(disk, path, recursive)
                     io == <<"exists", "is_file", "is_dir",
                             IF recursive THEN "remove_dir_all" ELSE "remove_dir">>
                 IN IF ~r.ok
                    THEN ExecutionFailed(IF recursive THEN "cannot delete directory"
                                         ELSE "directory not empty", disk, io)
                    ELSE Ok(r.disk, io, [type |-> "directory", recursive |-> recursive])
            ELSE ExecutionFailed("unsupported path type", disk,
                                 <<"exists", "is_file", "is_dir">>)

-----------------------------------------------------------------------------
(* file_move *)

\* the destination is not looked at
MoveRefusesDestination_Never(disk, dst) == FALSE

\* dst.exists()
MoveRefusesDestination(disk, dst) == Exists(disk, dst)

\* FileMoveTool::execute
FileMoveExec(params, disk) ==
    IF ~IsStr(params.source) THEN InvalidParameters("source is required", disk, <<>>)
    ELSE IF ~IsStr(params.destination)
    THEN InvalidParameters("destination is required", disk, <<>>)
    ELSE LET src == params.source.v
             dst == params.destination.v
         IN IF ~Exists(disk, src)
            THEN ExecutionFailed("source does not exist", disk, <<"exists">>)
            ELSE IF MoveRefusesDestination(disk, dst)
            THEN ExecutionFailed("destination exists", disk, <<"exists", "exists">>)
            ELSE LET mk == ~Exists(disk, Parent(dst))
                     d == IF mk THEN CreateDirAll(disk, Parent(dst)) ELSE IoOk(disk)
                     io == IF mk THEN <<"exists", "exists", "exists", "create_dir_all">>
                           ELSE <<"exists", "exists", "exists">>
                 IN IF ~d.ok THEN ExecutionFailed("cannot create directory", disk, io)
                    ELSE LET r == Rename(d.disk, src, dst)
                         IN IF ~r.ok
                            THEN ExecutionFailed("cannot move", d.disk, Append(io, "rename"))
                            ELSE Ok(r.disk, Append(io, "rename"), NoData)

-----------------------------------------------------------------------------
(* file_info *)

\* line counts are taken only of files below this size, in bytes
LineCountCeiling == 10000000

\* what metadata.len() may give for a directory (the platform's choice)
DirLens == {0, 4096}

Some(n) == [some |-> TRUE, v |-> n]
None == [some |-> FALSE, v |-> 0]

\* FileInfoTool::execute; dirLen is metadata.len() should the path be a directory
FileInfoExec(params, disk, dirLen) ==
    IF ~IsStr(params.path) THEN InvalidParameters("path is required", disk, <<>>)
    ELSE LET path == params.path.v
         IN IF ~Exists(disk, path)
            THEN ExecutionFailed("cannot read metadata", disk, <<"metadata">>)
            ELSE LET isfile == IsFile(disk, path)
                     size == IF isfile THEN Len(disk[path].content) ELSE dirLen
                     counted == isfile /\ size < LineCountCeiling
                     r == ReadToString(disk, path)
                 IN Ok(disk,
                       IF counted THEN <<"metadata", "read">> ELSE <<"metadata">>,
                       [type |-> IF isfile THEN "file" ELSE "directory",
                        size |-> size,
                        line_count |-> IF counted /\ r.ok
                                       THEN Some(Len(Lines(r.content)))
                                       ELSE None])

-----------------------------------------------------------------------------
(* directory_create *)

\* DirectoryCreateTool::execute
DirectoryCreateExec(params, disk) ==
    IF ~IsStr(params.path) THEN InvalidParameters("path is required", disk, <<>>)
    ELSE LET path == params.path.v
         IN IF Exists(disk, path)
            THEN IF IsDir(disk, path)
                 THEN Ok(disk, <<"exists", "is_dir">>, [already_existed |-> TRUE])
                 ELSE ExecutionFailed("a file exists at this path", disk,
                                      <<"exists", "is_dir">>)
            ELSE LET d == CreateDirAll(disk, path)
                 IN IF ~d.ok
                    THEN ExecutionFailed("cannot create directory", disk,
                                         <<"exists", "create_dir_all">>)
                    ELSE Ok(d.disk, <<"exists", "create_dir_all">>,
                            [already_existed |-> FALSE])

-----------------------------------------------------------------------------
(* file_copy *)

\* FileCopyTool::execute; selfTrunc is the platform's choice in CopyFile
FileCopyExec(params, disk, selfTrunc) ==
    IF ~IsStr(params.source) THEN InvalidParameters("source is required", disk, <<>>)
    ELSE IF ~IsStr(params.destination)
    THEN InvalidParameters("destination is required", disk, <<>>)
    ELSE LET src == params.source.v
             dst == params.destination.v
         IN IF ~Exists(disk, src)
            THEN ExecutionFailed("source does not exist", disk, <<"exists">>)
            ELSE LET mk == ~Exists(disk, Parent(dst))
                     d == IF mk THEN CreateDirAll(disk, Parent(dst)) ELSE IoOk(disk)
                     io == IF mk THEN <<"exists", "exists", "create_dir_all">>
                           ELSE <<"exists", "exists">>
                 IN IF ~d.ok THEN ExecutionFailed("cannot create directory", disk, io)
                    ELSE LET c == CopyFile(d.disk, src, dst, selfTrunc)
                         IN IF ~c.ok
                            THEN ExecutionFailed("cannot copy", d.disk, Append(io, "copy"))
                            ELSE Ok(c.disk, Append(io, "copy"), [bytes |-> c.bytes])

-----------------------------------------------------------------------------
(* State: the disk, and the record of the last invocation completed *)

\* what a caller keeps from one invocation to its next: the line it has seen
\* with its fingerprint (obs), the file it has just created (made)
NoObs == [seen |-> FALSE, line |-> 0, text |-> <<>>, hash |-> <<>>]
NoMade == [set |-> FALSE, path |-> <<>>, content |-> <<>>]
NoTasks == <<>>

NoLast(disk) ==
    [op |-> "none", params |-> Bundle(<<>>), kind |-> "none", msg |-> "",
     before |-> disk, io |-> <<>>, data |-> NoData]

\* no invocation's result is waiting for the caller
Idle == last.op = "none"

\* an invocation of op with params on the disk fs ends with r
Ends(op, params, r) ==
    /\ fs' = r.disk
    /\ last' = [op |-> op, params |-> params, kind |-> r.kind, msg |-> r.msg,
                before |-> fs, io |-> r.io, data |-> r.data]

\* an invocation made when no result is waiting
Completes(op, params, r) == Idle /\ Ends(op, params, r)

-----------------------------------------------------------------------------
(* Spec: every tool, one invocation at a time, on a tree of two            *)
(* directories' depth                                                      *)

\* the file contents of the tree: "" and "a"
TreeTexts == {<<>>, <<97>>}

TreeEntries == {NoEntry, DirEntry} \cup {FileEntry(c) : c \in TreeTexts}

TreeDisks == {d \in [Paths -> TreeEntries] : WellFormed(d)}

\* a path argument: missing, of the wrong type, or a path of the model
PathArgs == {Absent, Num(0)} \cup {Str(p) : p \in Paths}
TextArgs == {Absent} \cup {Str(c) : c \in TreeTexts}
FlagArgs == {Absent, Bool(TRUE)}

TreeEditBundles ==
    {Bundle([path |-> p, old_string |-> o, new_string |-> n]) :
        p \in PathArgs, o \in TextArgs, n \in TextArgs}

CreateBundles ==
    {Bundle([path |-> p, content |-> c, overwrite |-> o]) :
        p \in PathArgs, c \in TextArgs, o \in FlagArgs \cup {Bool(FALSE)}}

DeleteBundles ==
    {Bundle([path |-> p, recursive |-> r]) : p \in PathArgs, r \in FlagArgs}

MoveBundles ==
    {Bundle([source |-> a, destination |-> b]) :
        a \in PathArgs \ {Num(0)}, b \in PathArgs \ {Num(0)}}

PathBundles == {Bundle([path |-> p]) : p \in PathArgs}

Init ==
    /\ fs \in TreeDisks
    /\ last = NoLast(fs)
    /\ obs = NoObs
    /\ made = NoMade
    /\ tasks = NoTasks

FileEdit ==
    \E b \in TreeEditBundles :
        /\ Completes("file_edit", b, FileEditExec(b, fs))
        /\ UNCHANGED <<obs, made, tasks>>

FileCreate ==
    \E b \in CreateBundles :
        /\ Completes("file_create", b, FileCreateExec(b, fs))
        /\ UNCHANGED <<obs, made, tasks>>

FileDelete ==
    \E b \in DeleteBundles :
        /\ Completes("file_delete", b, FileDeleteExec(b, fs))
        /\ UNCHANGED <<obs, made, tasks>>

\* a move the model has the paths for
FileMove ==
    \E b \in MoveBundles :
        /\ (IsStr(b.source) /\ IsStr(b.destination))
              => RenameFits(fs, b.source.v, b.destination.v)
        /\ Completes("file_move", b, FileMoveExec(b, fs))
        /\ UNCHANGED <<obs, made, tasks>>

FileInfo ==
    \E b \in PathBundles, dirLen \in DirLens :
        /\ Completes("file_info", b, FileInfoExec(b, fs, dirLen))
        /\ UNCHANGED <<obs, made, tasks>>

DirectoryCreate ==
    \E b \in PathBundles :
        /\ Completes("directory_create", b, DirectoryCreateExec(b, fs))
        /\ UNCHANGED <<obs, made, tasks>>

FileCopy ==
    \E b \in MoveBundles, selfTrunc \in BOOLEAN :
        /\ Completes("file_copy", b, FileCopyExec(b, fs, selfTrunc))
        /\ UNCHANGED <<obs, made, tasks>>

\* the caller takes the result; every invocation is independent of the last
Return ==
    /\ ~Idle
    /\ last' = NoLast(fs)
    /\ UNCHANGED <<fs, obs, made, tasks>>

Next ==
    \/ Return
    \/ FileEdit
    \/ FileCreate
    \/ FileDelete
    \/ FileMove
    \/ FileInfo
    \/ DirectoryCreate
    \/ FileCopy

Spec == Init /\ [][Next]_vars

\* the disk stays a tree
TypeOK == WellFormed(fs)

-----------------------------------------------------------------------------
(* Properties of single invocations (Spec) *)

Failed == last.kind \in {"InvalidParameters", "ExecutionFailed"}

MutatingOps == {"file_edit", "file_create", "file_delete", "file_move",
                "file_copy", "directory_create"}

\* a component of p above p is a regular file
AncestorIsFile(disk, p) == \E q \in Paths : IsPrefix(q, p) /\ q # p /\ IsFile(disk, q)

\* every component of p above p is a directory
AncestorsAreDirs(disk, p) == \A q \in Paths : (IsPrefix(q, p) /\ q # p) => IsDir(disk, q)

\* C3: every file_edit invocation whose old_string equals its new_string
\* fails with InvalidParameters and does not write the file, whatever the
\* other arguments and the state of the target path.
C3_EqualStringsInvalid ==
    (/\ last.op = "file_edit"
     /\ IsStr(last.params.old_string)
     /\ IsStr(last.params.new_string)
     /\ last.params.old_string.v = last.params.new_string.v)
    => (/\ last.kind = "InvalidParameters"
        /\ fs = last.before
        /\ \A i \in DOMAIN last.io : last.io[i] # "write")

\* C4: a mutating operation that returns an error leaves the file system
\* exactly as it was before the invocation.
C4_AllOrNothing ==
    (last.op \in MutatingOps /\ Failed) => fs = last.before

\* C5: an invocation that returns InvalidParameters has made no call to the
\* file system.
C5_InvalidBeforeIo ==
    last.kind = "InvalidParameters" => last.io = <<>>

CreateCall ==
    /\ last.op = "file_create"
    /\ IsStr(last.params.path)
    /\ IsStr(last.params.content)

CreateRefused == last.kind = "ExecutionFailed" /\ fs = last.before

CreateDone ==
    /\ last.kind = "Ok"
    /\ fs[last.params.path.v] = FileEntry(last.params.content.v)
    /\ AncestorsAreDirs(fs, last.params.path.v)

\* C7 as stated: file_create on an existing path without overwrite fails
\* with ExecutionFailed and changes nothing; with overwrite = true, or on a
\* path that does not exist, it succeeds, the file holds the content
\* supplied and the missing parent directories are made.
C7_CreateAsStated ==
    CreateCall =>
        LET p == last.params.path.v
            overwrite == BoolOrFalse(last.params.overwrite)
        IN /\ (Exists(last.before, p) /\ ~overwrite) => CreateRefused
           /\ (overwrite \/ ~Exists(last.before, p)) => CreateDone

\* C7 amended: file_create on an existing path without overwrite fails with
\* ExecutionFailed and changes nothing; with overwrite = true on a regular
\* file, or on a path that does not exist and has no regular file among its
\* ancestors, it succeeds, the file holds the content supplied and the
\* missing parent directories are made; with overwrite = true on a
\* directory, or below a regular file, it fails with ExecutionFailed and
\* changes nothing.
C7_CreatePrecondition ==
    CreateCall =>
        LET p == last.params.path.v
            overwrite == BoolOrFalse(last.params.overwrite)
            before == last.before
        IN /\ (Exists(before, p) /\ ~overwrite) => CreateRefused
           /\ ((overwrite /\ IsFile(before, p))
               \/ (~Exists(before, p) /\ ~AncestorIsFile(before, p))) => CreateDone
           /\ ((overwrite /\ IsDir(before, p))
               \/ (~Exists(before, p) /\ AncestorIsFile(before, p))) => CreateRefused

\* a file was created in a directory that the call had to make, and another
\* call replaced an existing file's content under overwrite = true
C7_Witness ==
    /\ CreateCall
    /\ last.kind = "Ok"
    /\ Len(last.params.path.v) = 2
    /\ ~Exists(last.before, Parent(last.params.path.v))
    /\ fs[last.params.path.v] = FileEntry(last.params.content.v)
    /\ IsDir(fs, Parent(last.params.path.v))

DeleteCall == last.op = "file_delete" /\ IsStr(last.params.path)

\* C9: file_delete on a non-empty directory without recursive = true fails
\* with ExecutionFailed and leaves the directory and everything under it as
\* they were; with recursive = true it succeeds and neither the directory
\* nor anything under it exists afterwards; on a path that does not exist
\* it fails with ExecutionFailed.
C9_DirectoryDeleteSafety ==
    DeleteCall =>
        LET p == last.params.path.v
            recursive == BoolOrFalse(last.params.recursive)
            before == last.before
            nonEmptyDir == IsDir(before, p) /\ Children(before, p) # {}
        IN /\ (nonEmptyDir /\ ~recursive)
                => (last.kind = "ExecutionFailed" /\ fs = before)
           /\ (nonEmptyDir /\ recursive)
                => (/\ last.kind = "Ok"
                    /\ \A q \in Paths : IsPrefix(p, q) => ~Exists(fs, q)
                    /\ \A q \in Paths : ~IsPrefix(p, q) => fs[q] = before[q])
           /\ ~Exists(before, p) => (last.kind = "ExecutionFailed" /\ fs = before)

\* a directory holding a file was deleted with recursive = true
C9_Witness ==
    /\ DeleteCall
    /\ BoolOrFalse(last.params.recursive)
    /\ IsDir(last.before, last.params.path.v)
    /\ \E q \in Children(last.before, last.params.path.v) : IsFile(last.before, q)
    /\ last.kind = "Ok"
    /\ ~Exists(fs, last.params.path.v)

MoveCall ==
    /\ last.op = "file_move"
    /\ IsStr(last.params.source)
    /\ IsStr(last.params.destination)

\* C10: file_move fails with ExecutionFailed, source and destination left
\* as they were, when the source does not exist or the destination exists;
\* when it succeeds the source path no longer exists, the destination holds
\* what the source held, and nothing existed at the destination before.
C10_MovePreconditions ==
    MoveCall =>
        LET src == last.params.source.v
            dst == last.params.destination.v
            before == last.before
        IN /\ (~Exists(before, src) \/ Exists(before, dst))
                => (last.kind = "ExecutionFailed" /\ fs = before)
           /\ last.kind = "Ok"
                => (/\ ~Exists(fs, src)
                    /\ ~Exists(before, dst)
                    /\ \A q \in Paths : IsPrefix(src, q) =>
                          (/\ fs[q] = NoEntry
                           /\ before[q] # NoEntry => fs[Moved(src, dst, q)] = before[q])
                    /\ \A q \in Paths : (IsPrefix(dst, q) /\ Exists(fs, q)) =>
                          (/\ src \o Drop(q, Len(dst)) \in Paths
                           /\ fs[q] = before[src \o Drop(q, Len(dst))]))

\* a directory holding a file was moved to a path whose parent the call made
C10_Witness ==
    /\ MoveCall
    /\ last.kind = "Ok"
    /\ IsDir(last.before, last.params.source.v)
    /\ Children(last.before, last.params.source.v) # {}
    /\ IsDir(fs, last.params.destination.v)
    /\ Children(fs, last.params.destination.v) # {}

-----------------------------------------------------------------------------
(* SpecEdit: file_edit with every combination of its arguments, on one     *)
(* file of any content up to MaxLen bytes                                  *)

TheFile == <<"p">>

\* the disk with entry e at TheFile and nothing else
OneFileDisk(e) == [q \in Paths |-> IF q = TheFile THEN e ELSE NoEntry]

OneFileDisks ==
    {OneFileDisk(e) : e \in {NoEntry, DirEntry} \cup {FileEntry(c) : c \in TextsUpTo(MaxLen)}}

\* the texts without a line feed
LineTexts(n) == {l \in TextsUpTo(n) : \A i \in DOMAIN l : l[i] # 10}

EditPathArgs == {Absent, Str(TheFile)}
OldArgs == {Absent} \cup {Str(c) : c \in TextsUpTo(2)}
NewArgs == {Absent} \cup {Str(c) : c \in {<<>>, <<97>>, <<36, 10>>}}
ReplaceAllArgs == {Absent, Bool(FALSE), Bool(TRUE)}
LineNumberArgs == {Absent} \cup {Num(n) : n \in (0 - 1)..(MaxLen + 1)}
HashArgs == {Absent, Num(0)} \cup {Str(compute_line_hash(l)) : l \in LineTexts(1)}

\* bundles without both line_number and hash
StrReplaceBundles ==
    {Bundle([path |-> p, old_string |-> o, new_string |-> n, replace_all |-> r,
             line_number |-> lh[1], hash |-> lh[2]]) :
        p \in EditPathArgs, o \in OldArgs, n \in NewArgs, r \in ReplaceAllArgs,
        lh \in {<<Absent, Absent>>, <<Num(1), Absent>>,
                <<Absent, Str(compute_line_hash(<<97>>))>>}}

\* bundles with both line_number and hash
HashlineBundles ==
    {Bundle([path |-> p, old_string |-> o, new_string |-> n,
             line_number |-> l, hash |-> h]) :
        p \in EditPathArgs, o \in {Absent, Str(<<97>>)}, n \in NewArgs,
        l \in LineNumberArgs \ {Absent}, h \in HashArgs \ {Absent}}

EditBundles == StrReplaceBundles \cup HashlineBundles

InitEdit ==
    /\ fs \in OneFileDisks
    /\ last = NoLast(fs)
    /\ obs = NoObs
    /\ made = NoMade
    /\ tasks = NoTasks

\* an edit of a file the model's bound admits
EditAny ==
    \E b \in EditBundles :
        /\ Len(fs[TheFile].content) <= MaxLen
        /\ Completes("file_edit", b, FileEditExec(b, fs))
        /\ UNCHANGED <<obs, made, tasks>>

NextEdit ==
    \/ Return
    \/ EditAny

SpecEdit == InitEdit /\ [][NextEdit]_vars

-----------------------------------------------------------------------------
(* Properties of file_edit (SpecEdit) *)

\* pat occurs in s at position i
OccursAt(s, pat, i) ==
    /\ i \in 1..(Len(s) - Len(pat) + 1)
    /\ SubSeq(s, i, i + Len(pat) - 1) = pat

OccursNever(s, pat) == \A i \in 1..(Len(s) + 1) : ~OccursAt(s, pat, i)

\* pat occurs at two positions of s
OccursTwice(s, pat) ==
    \E i, j \in 1..(Len(s) + 1) : i < j /\ OccursAt(s, pat, i) /\ OccursAt(s, pat, j)

\* pat has two occurrences in s that do not overlap
OccursTwiceApart(s, pat) ==
    \E i, j \in 1..(Len(s) + 1) :
        i < j /\ i + Len(pat) <= j /\ OccursAt(s, pat, i) /\ OccursAt(s, pat, j)

\* a substring-mode invocation that has read its file
StrReplaceCall ==
    /\ last.op = "file_edit"
    /\ EditArgsOk(last.params)
    /\ ~hashline_mode(last.params)
    /\ IsStr(last.params.old_string)
    /\ IsFile(last.before, last.params.path.v)

Wrote == \E i \in DOMAIN last.io : last.io[i] = "write"

EditRefused == last.kind = "ExecutionFailed" /\ fs = last.before /\ ~Wrote

\* C2 as stated: in substring mode file_edit fails with ExecutionFailed and
\* leaves the file unchanged when old_string occurs zero times, or occurs
\* more than once while replace_all is unset; it writes the file only when
\* old_string occurs exactly once, or replace_all is set and it occurs.
C2_AmbiguityAsStated ==
    StrReplaceCall =>
        LET content == last.before[last.params.path.v].content
            old == last.params.old_string.v
            all == BoolOrFalse(last.params.replace_all)
        IN /\ (OccursNever(content, old) \/ (OccursTwice(content, old) /\ ~all))
                => EditRefused
           /\ Wrote => (/\ ~OccursNever(content, old)
                        /\ (all \/ ~OccursTwice(content, old)))

\* C2 amended: in substring mode with old_string different from new_string,
\* file_edit fails with ExecutionFailed and leaves the file unchanged when
\* old_string occurs zero times, or has two occurrences that do not overlap
\* while replace_all is unset; it writes the file only when old_string
\* occurs and either replace_all is set or no two occurrences lie apart.
C2_SubstringAmbiguity ==
    (StrReplaceCall /\ last.params.old_string.v # last.params.new_string.v) =>
        LET content == last.before[last.params.path.v].content
            old == last.params.old_string.v
            all == BoolOrFalse(last.params.replace_all)
        IN /\ (OccursNever(content, old) \/ (OccursTwiceApart(content, old) /\ ~all))
                => EditRefused
           /\ Wrote => (/\ ~OccursNever(content, old)
                        /\ (all \/ ~OccursTwiceApart(content, old))
                        /\ last.kind = "Ok")

\* old_string occurred twice, replace_all was unset, and the call was refused
C2_Witness ==
    /\ StrReplaceCall
    /\ last.params.old_string.v # last.params.new_string.v
    /\ last.params.old_string.v # <<>>
    /\ OccursTwiceApart(last.before[last.params.path.v].content, last.params.old_string.v)
    /\ ~BoolOrFalse(last.params.replace_all)
    /\ EditRefused

-----------------------------------------------------------------------------
(* SpecRoundTrip: file_create of any content up to MaxLen bytes, then      *)
(* file_info of the file created, nothing in between                       *)

RoundTripBundles ==
    {Bundle([path |-> Str(TheFile), content |-> Str(c), overwrite |-> o]) :
        c \in TextsUpTo(MaxLen), o \in {Absent, Bool(TRUE)}}

InitRoundTrip ==
    /\ fs \in OneFileDisks
    /\ last = NoLast(fs)
    /\ obs = NoObs
    /\ made = NoMade
    /\ tasks = NoTasks

\* file_create; the caller keeps what it created
CreateMade ==
    \E b \in RoundTripBundles :
        LET r == FileCreateExec(b, fs)
        IN /\ Completes("file_create", b, r)
           /\ made' = IF r.kind = "Ok"
                      THEN [set |-> TRUE, path |-> b.path.v, content |-> b.content.v]
                      ELSE NoMade
           /\ UNCHANGED <<obs, tasks>>

\* file_info of the file just created
InspectMade ==
    /\ made.set
    /\ last.op = "file_create"
    /\ \E dirLen \in DirLens :
          LET b == Bundle([path |-> Str(made.path)])
          IN Ends("file_info", b, FileInfoExec(b, fs, dirLen))
    /\ UNCHANGED <<obs, made, tasks>>

NextRoundTrip ==
    \/ Return
    \/ CreateMade
    \/ InspectMade

SpecRoundTrip == InitRoundTrip /\ [][NextRoundTrip]_vars

-----------------------------------------------------------------------------
(* Properties of the round trip (SpecRoundTrip) *)

LineFeeds(c) == Cardinality({i \in DOMAIN c : c[i] = 10})

\* the pieces of c that line feeds delimit: one more than its line feeds
NewlineSegments(c) == LineFeeds(c) + 1

\* the lines of c: one per line feed, and one more when text follows the
\* last line feed
TextLines(c) ==
    LineFeeds(c) + (IF c # <<>> /\ c[Len(c)] # 10 THEN 1 ELSE 0)

Inspected == last.op = "file_info" /\ made.set

\* C8 as stated: file_info right after file_create of content C reports
\* size = the byte length of C and line_count = the number of
\* newline-delimited segments of C, also for C empty or ending in a newline.
C8_RoundTripAsStated ==
    Inspected =>
        /\ last.kind = "Ok"
        /\ last.data.size = Len(made.content)
        /\ last.data.line_count = Some(NewlineSegments(made.content))

\* C8 amended: file_info right after file_create of content C (shorter than
\* the line-count ceiling) reports size = the byte length of C and
\* line_count = the number of lines of C, a line being ended by a line feed
\* or by the end of C after at least one byte: 0 for the empty C, and a
\* final line feed opens no further line.
C8_RoundTrip ==
    Inspected =>
        /\ last.kind = "Ok"
        /\ last.data.type = "file"
        /\ last.data.size = Len(made.content)
        /\ last.data.line_count = Some(TextLines(made.content))

\* a file whose content ends in a line feed was created and inspected
C8_Witness ==
    /\ Inspected
    /\ last.kind = "Ok"
    /\ Len(made.content) = MaxLen
    /\ made.content[Len(made.content)] = 10
    /\ last.data.line_count = Some(LineFeeds(made.content))

-----------------------------------------------------------------------------
(* SpecStale: a caller takes a line of the file and its fingerprint, the   *)
(* file is rewritten behind its back, and it submits a hashline edit with  *)
(* what it took                                                            *)

StaleNewStrings == {<<>>, <<97>>, <<36>>}

InitStale ==
    /\ \E c \in TextsUpTo(MaxLen) : fs = OneFileDisk(FileEntry(c))
    /\ last = NoLast(fs)
    /\ obs = NoObs
    /\ made = NoMade
    /\ tasks = NoTasks

\* the caller reads line n (1-based) of the file and the fingerprint of it
Observe ==
    /\ Idle
    /\ ~obs.seen
    /\ IsFile(fs, TheFile)
    /\ \E n \in 1..Len(Lines(fs[TheFile].content)) :
          LET text == Lines(fs[TheFile].content)[n]
          IN obs' = [seen |-> TRUE, line |-> n, text |-> text,
                     hash |-> compute_line_hash(text)]
    /\ UNCHANGED <<fs, last, made, tasks>>

\* what the caller took is still what the file holds
ObsCurrent ==
    /\ obs.seen
    /\ IsFile(fs, TheFile)
    /\ obs.line <= Len(Lines(fs[TheFile].content))
    /\ Lines(fs[TheFile].content)[obs.line] = obs.text

\* someone else gives the file another content, once the caller has taken
\* its line
ExternalWrite ==
    /\ Idle
    /\ ObsCurrent
    /\ \E c \in TextsUpTo(MaxLen) :
          /\ c # fs[TheFile].content
          /\ fs' = WriteFile(fs, TheFile, c).disk
    /\ UNCHANGED <<last, obs, made, tasks>>

\* file_edit with the line number and the fingerprint the caller took
Submit ==
    /\ obs.seen
    /\ \E new \in StaleNewStrings :
          LET b == Bundle([path |-> Str(TheFile), new_string |-> Str(new),
                           line_number |-> Num(obs.line), hash |-> Str(obs.hash)])
          IN Completes("file_edit", b, FileEditExec(b, fs))
    /\ UNCHANGED <<obs, made, tasks>>

NextStale ==
    \/ Return
    \/ Observe
    \/ ExternalWrite
    \/ Submit

SpecStale == InitStale /\ [][NextStale]_vars

-----------------------------------------------------------------------------
(* Properties of the stale submission (SpecStale) *)

\* the lines of the file as the submitted call found it
LinesBefore == Lines(last.before[TheFile].content)

\* the call was submitted for a line that is no longer as the caller saw it
StaleSubmit ==
    /\ last.op = "file_edit"
    /\ obs.seen
    /\ obs.line <= Len(LinesBefore)
    /\ LinesBefore[obs.line] # obs.text

MismatchReported ==
    /\ last.kind = "ExecutionFailed"
    /\ last.msg = "Hash mismatch"
    /\ fs = last.before

\* C1 as stated: a hashline edit submitted with the fingerprint of line n
\* as it was, after line n has been modified by someone else, fails with
\* ExecutionFailed reporting a mismatch and leaves the file as it was.
C1_StalenessAsStated == StaleSubmit => MismatchReported

\* C1 amended: the same, provided the modified line's fingerprint differs
\* from the original line's; when the two lines share a fingerprint the
\* call succeeds and replaces the modified line.
C1_Staleness ==
    StaleSubmit =>
        IF compute_line_hash(LinesBefore[obs.line]) # obs.hash
        THEN MismatchReported
        ELSE /\ last.kind = "Ok"
             /\ fs[TheFile].content =
                    JoinLF([LinesBefore EXCEPT ![obs.line] = last.params.new_string.v])

\* a stale submission was refused for its fingerprint
C1_Witness ==
    /\ StaleSubmit
    /\ MismatchReported
    /\ obs.text = <<97>>
    /\ LinesBefore[obs.line] = <<97, 97>>

-----------------------------------------------------------------------------
(* SpecRace: two file_edit invocations on the same path, each suspended    *)
(* between its read_to_string and its write                                *)

TaskIds == 1..MaxTasks

RaceBundles ==
    {Bundle([path |-> Str(TheFile), old_string |-> Str(<<97>>), new_string |-> Str(<<36>>)]),
     Bundle([path |-> Str(TheFile), old_string |-> Str(<<36>>), new_string |-> Str(<<97>>)]),
     Bundle([path |-> Str(TheFile), line_number |-> Num(1),
             hash |-> Str(compute_line_hash(<<97>>)), new_string |-> Str(<<36>>)]),
     Bundle([path |-> Str(TheFile), line_number |-> Num(1),
             hash |-> Str(compute_line_hash(<<36>>)), new_string |-> Str(<<97>>)]),
     Bundle([path |-> Str(TheFile), old_string |-> Str(<<97>>)])}

\* an invocation: where it stands, the content it read, how it ended, the
\* entry its last step found at the path and the entry it left there
NotStarted ==
    [pc |-> "idle", params |-> Bundle([path |-> Absent]), read |-> FALSE,
     content |-> <<>>, kind |-> "none", msg |-> "", found |-> NoEntry, wrote |-> NoEntry]

InitRace ==
    /\ fs \in OneFileDisks
    /\ last = NoLast(fs)
    /\ obs = NoObs
    /\ made = NoMade
    /\ tasks = [t \in TaskIds |-> NotStarted]

\* the invocation up to the await of read_to_string
EditStart(t) ==
    /\ tasks[t].pc = "idle"
    /\ \E b \in RaceBundles :
          tasks' = [tasks EXCEPT ![t] =
              IF EditArgsOk(b) /\ ReadToString(fs, b.path.v).ok
              THEN [NotStarted EXCEPT !.pc = "read", !.params = b, !.read = TRUE,
                                      !.content = ReadToString(fs, b.path.v).content]
              ELSE [NotStarted EXCEPT !.pc = "done", !.params = b,
                                      !.kind = FileEditExec(b, fs).kind,
                                      !.msg = FileEditExec(b, fs).msg,
                                      !.found = fs[TheFile], !.wrote = fs[TheFile]]]
    /\ UNCHANGED <<fs, last, obs, made>>

\* the rest of the invocation, on the disk as it is by then
EditEnd(t) ==
    /\ tasks[t].pc = "read"
    /\ LET k == tasks[t]
           r == FileEditFinish(k.params, k.content, fs)
       IN /\ fs' = r.disk
          /\ tasks' = [tasks EXCEPT ![t] =
                 [k EXCEPT !.pc = "done", !.kind = r.kind, !.msg = r.msg,
                           !.found = fs[TheFile], !.wrote = r.disk[TheFile]]]
    /\ UNCHANGED <<last, obs, made>>

NextRace ==
    \/ \E t \in TaskIds : EditStart(t)
    \/ \E t \in TaskIds : EditEnd(t)

SpecRace == InitRace /\ [][NextRace]_vars

-----------------------------------------------------------------------------
(* Properties of racing edits (SpecRace) *)

\* invocation t has ended after reading the file
Finished(t) == tasks[t].pc = "done" /\ tasks[t].read

\* C6: an invocation that has read the file ends as the content it read
\* decides, whatever another invocation wrote to the path since: when the
\* edit of that content succeeds (in line mode: the fingerprint supplied is
\* that of the line as read) the path holds exactly the edit of the content
\* read once the invocation has written, and otherwise the invocation fails
\* and leaves the path as it found it.
C6_ConcurrentEditsUnprotected ==
    \A t \in DOMAIN tasks :
        Finished(t) =>
            LET k == tasks[t]
                c == EditCompute(k.params, k.content)
            IN /\ k.kind = c.kind
               /\ k.msg = c.msg
               /\ c.kind = "Ok" => k.wrote = FileEntry(c.new_content)
               /\ c.kind # "Ok" => k.wrote = k.found

\* a lost update: u wrote between t's read and t's write, t's fingerprint is
\* not that of the line u left, and t succeeded and left its own content
C6_Witness ==
    \E t, u \in DOMAIN tasks :
        /\ t # u
        /\ Finished(t) /\ Finished(u)
        /\ tasks[t].kind = "Ok" /\ tasks[u].kind = "Ok"
        /\ tasks[t].found = tasks[u].wrote
        /\ tasks[t].found # FileEntry(tasks[t].content)
        /\ hashline_mode(tasks[t].params)
        /\ Len(Lines(tasks[t].found.content)) >= 1
        /\ compute_line_hash(Lines(tasks[t].found.content)[1]) # tasks[t].params.hash.v
        /\ fs[TheFile] = tasks[t].wrote
        /\ fs[TheFile] # tasks[u].wrote

-----------------------------------------------------------------------------
(* Properties of file_copy and directory_create (Spec) *)

CopyCall ==
    /\ last.op = "file_copy"
    /\ IsStr(last.params.source)
    /\ IsStr(last.params.destination)

\* C11: file_copy fails with ExecutionFailed when the source does not
\* exist; when it succeeds the source is unchanged and the destination
\* holds the source's content, also when the destination existed before.
C11_CopyAsStated ==
    CopyCall =>
        LET src == last.params.source.v
            dst == last.params.destination.v
        IN /\ ~Exists(last.before, src) =>
                 (last.kind = "ExecutionFailed" /\ fs = last.before)
           /\ last.kind = "Ok" =>
                 /\ fs[src] = last.before[src]
                 /\ fs[dst] = FileEntry(last.before[src].content)

DirCreateCall == last.op = "directory_create" /\ IsStr(last.params.path)

\* the path and every component above it are directories, the rest of the
\* disk is as it was
HierarchyMade(p) ==
    \A q \in Paths : fs[q] = IF IsPrefix(q, p) THEN DirEntry ELSE last.before[q]

DirCreateRefused == last.kind = "ExecutionFailed" /\ fs = last.before

\* a second directory_create with the same arguments succeeds and changes
\* nothing
RepeatIsNoOp ==
    LET again == DirectoryCreateExec(last.params, fs)
    IN again.kind = "Ok" /\ again.disk = fs

\* C12 as stated: directory_create succeeds and creates the full path
\* hierarchy when the path is absent, succeeds without changing the
\* filesystem when the path is already a directory (so a second call in a
\* row succeeds too, with the same final state), and fails with
\* ExecutionFailed without changing anything when the path is a
\* non-directory.
C12_DirectoryCreateAsStated ==
    DirCreateCall =>
        LET p == last.params.path.v
            before == last.before
        IN /\ ~Exists(before, p) => (last.kind = "Ok" /\ HierarchyMade(p))
           /\ IsDir(before, p) => (last.kind = "Ok" /\ fs = before)
           /\ last.kind = "Ok" => RepeatIsNoOp
           /\ IsFile(before, p) => DirCreateRefused

\* C12 amended: the same, where an absent path gives success and the full
\* hierarchy only if no component above it is a regular file; an absent
\* path below a regular file fails with ExecutionFailed and changes nothing.
C12_DirectoryCreateIdempotent ==
    DirCreateCall =>
        LET p == last.params.path.v
            before == last.before
        IN /\ (~Exists(before, p) /\ ~AncestorIsFile(before, p))
                 => (last.kind = "Ok" /\ HierarchyMade(p))
           /\ (~Exists(before, p) /\ AncestorIsFile(before, p)) => DirCreateRefused
           /\ IsDir(before, p) => (last.kind = "Ok" /\ fs = before)
           /\ last.kind = "Ok" => RepeatIsNoOp
           /\ IsFile(before, p) => DirCreateRefused

\* a directory was made together with its missing parent
C12_Witness ==
    /\ DirCreateCall
    /\ last.kind = "Ok"
    /\ Len(last.params.path.v) = 2
    /\ ~Exists(last.before, Parent(last.params.path.v))
    /\ IsDir(fs, last.params.path.v)
    /\ IsDir(fs, Parent(last.params.path.v))

-----------------------------------------------------------------------------
(* file_search: names, the tree searched, and the str operations it uses *)

\* entries that may exist below the directory searched
MaxEntries == 3

\* largest max_results supplied
MaxCap == 2

\* file names, character by character
NameMRs == <<"m", ".", "r", "s">>
NameN == <<"n">>
NameDotH == <<".", "h">>
NameTarget == <<"t", "a", "r", "g", "e", "t">>
NameNodeModules == <<"n", "o", "d", "e", "_", "m", "o", "d", "u", "l", "e", "s">>
NamePycache == <<"_", "_", "p", "y", "c", "a", "c", "h", "e", "_", "_">>
NameDotGit == <<".", "g", "i", "t">>

TopSearchNames == {NameMRs, NameN, NameDotH, NameTarget}
SubSearchNames == {NameMRs, NameNodeModules, NamePycache}

\* the working directory "." is the empty sequence of names
Dot == <<>>

SearchBelow ==
    {<<x>> : x \in TopSearchNames}
        \cup {<<x, y>> : x \in TopSearchNames, y \in SubSearchNames}

SearchPaths == {Dot} \cup SearchBelow

\* the name filter of the directory walk
Pruned_DotOnly(name) == name # <<>> /\ name[1] = "."

Pruned(name) ==
    \/ (name # <<>> /\ name[1] = ".")
    \/ name = NameNodeModules
    \/ name = NameTarget
    \/ name = NamePycache
    \/ name = NameDotGit

\* Path::extension().and_then(to_str).unwrap_or(""): what follows the last
\* dot of the file name, a dot at the start of the name not counting
Extension(path) ==
    IF path = <<>> THEN <<>>
    ELSE LET name == path[Len(path)]
             dots == {i \in 2..Len(name) : name[i] = "."}
         IN IF dots = {} THEN <<>>
            ELSE SubSeq(name, (CHOOSE i \in dots : \A j \in dots : j <= i) + 1, Len(name))

\* the bytes of the files searched: line feed, space, 'A' and 'a'
SearchTexts == {<<65, 10, 97>>, <<32, 97>>}

\* str::to_lowercase, on ASCII
ToLowercase(s) == [i \in 1..Len(s) |-> IF s[i] \in 65..90 THEN s[i] + 32 ELSE s[i]]

\* str::contains
Contains(s, pat) == \E i \in 1..(Len(s) + 1) : StartsWith(Drop(s, i - 1), pat)

IsWhitespace(b) == b \in {9, 10, 11, 12, 13, 32}

\* str::trim
RECURSIVE TrimStart(_)
TrimStart(s) ==
    IF s # <<>> /\ IsWhitespace(s[1]) THEN TrimStart(Tail(s)) ELSE s

RECURSIVE TrimEnd(_)
TrimEnd(s) ==
    IF s # <<>> /\ IsWhitespace(s[Len(s)]) THEN TrimEnd(Take(s, Len(s) - 1)) ELSE s

Trim(s) == TrimEnd(TrimStart(s))

\* the trees: at most MaxEntries entries below ".", every entry in a
\* directory, every file with one of the SearchTexts
SearchKinds == {DirEntry} \cup {FileEntry(c) : c \in SearchTexts}

SearchShapes == {S \in SUBSET SearchBelow : Cardinality(S) <= MaxEntries}

SearchDiskOf(S, k) ==
    [p \in SearchPaths |-> IF p = Dot THEN DirEntry
                           ELSE IF p \in S THEN k[p] ELSE NoEntry]

SearchWellFormed(disk) ==
    \A p \in SearchBelow :
        disk[p].kind # "none" => disk[Take(p, Len(p) - 1)].kind = "dir"

SearchDisks ==
    UNION {{d \in {SearchDiskOf(S, k) : k \in [S -> SearchKinds]} : SearchWellFormed(d)} :
              S \in SearchShapes}

\* tokio::fs::read_dir: the names in a directory
EntryNames(disk, dir) ==
    {p[Len(p)] : p \in {q \in SearchPaths : /\ Len(q) = Len(dir) + 1
                                            /\ Take(q, Len(dir)) = dir
                                            /\ disk[q].kind # "none"}}

\* the orders in which a set of names may be enumerated
RECURSIVE Enumerations(_)
Enumerations(names) ==
    IF names = {} THEN {<<>>}
    ELSE UNION {{<<n>> \o e : e \in Enumerations(names \ {n})} : n \in names}

-----------------------------------------------------------------------------
(* file_search: FileSearchContentTool::execute and search_content_recursive *)

SearchKeys == {"query", "path", "file_pattern", "case_sensitive", "max_results"}

SearchBundle(given) ==
    [k \in SearchKeys |-> IF k \in DOMAIN given THEN given[k] ELSE Absent]

\* as_u64().unwrap_or(30)
MaxResultsDefault == 30

\* params["path"].as_str().unwrap_or(".")
SearchRoot(params) == IF IsStr(params.path) THEN params.path.v ELSE Dot

CaseSensitive(params) == BoolOrFalse(params.case_sensitive)

MaxResults(params) ==
    IF IsU64(params.max_results) THEN params.max_results.v ELSE MaxResultsDefault

\* search_query
SearchQuery(params) ==
    IF CaseSensitive(params) THEN params.query.v ELSE ToLowercase(params.query.v)

\* the cap is never taken for reached
Full_Never(results, max_results) == FALSE

\* the cap is tested one match too late
Full_OneLate(results, max_results) == Len(results) > max_results

\* results.len() >= max_results
Full(results, max_results) == Len(results) >= max_results

\* line.contains(query), or line.to_lowercase().contains(query)
LineMatches(line, query, case_sensitive) ==
    IF case_sensitive THEN Contains(line, query)
    ELSE Contains(ToLowercase(line), query)

\* one element of results
Match(path, i, line) == [file |-> path, line_number |-> i, content |-> Trim(line)]

\* the place of the invocation: a call of search_content_recursive about to
\* run ("call"), the loop over the lines of a file ("file"), the loop over
\* the entries of a directory ("dir")
Frame(kind, path, lines, i, rest) ==
    [kind |-> kind, path |-> path, lines |-> lines, i |-> i, rest |-> rest]

CallFrame(path) == Frame("call", path, <<>>, 0, <<>>)

\* the invocation once execute has read its arguments: its place (stack),
\* the matches so far (results), the files read and the directories listed
\* (read, walked), the entries each directory gave, in order (order), the
\* files and directories whose read failed (failed) and the paths
\* search_content_recursive was called with, in order (calls)
SearchTask(params) ==
    [pc |-> "run", params |-> params, stack |-> <<CallFrame(SearchRoot(params))>>,
     results |-> <<>>, read |-> {}, walked |-> {},
     order |-> [p \in SearchPaths |-> <<>>], failed |-> {}, calls |-> <<>>]

SearchBundles ==
    {SearchBundle([query |-> Str(q), case_sensitive |-> c, max_results |-> m]) :
        q \in {<<97>>, <<65>>}, c \in {Absent, Bool(TRUE)},
        m \in {Absent} \cup {Num(n) : n \in 0..MaxCap}}
    \cup {SearchBundle([query |-> Str(<<97>>), file_pattern |-> Str(<<"r", "s">>),
                        max_results |-> m]) : m \in {Absent, Num(1)}}
    \cup {SearchBundle([query |-> Str(<<97>>), path |-> Str(<<x>>), max_results |-> m]) :
            x \in {NameDotH, NameTarget, NameMRs}, m \in {Absent, Num(1)}}
    \cup {SearchBundle([query |-> q]) : q \in {Absent, Num(0)}}
    \cup {SearchBundle([query |-> Str(<<97>>), max_results |-> Num(0 - 1)])}

InitSearch ==
    /\ fs \in SearchDisks
    /\ last = NoLast(fs)
    /\ obs = NoObs
    /\ made = NoMade
    /\ tasks = NoTasks

Top(k) == k.stack[Len(k.stack)]
Pop(k) == [k EXCEPT !.stack = Take(k.stack, Len(k.stack) - 1)]
SetTop(k, f) == [k EXCEPT !.stack[Len(k.stack)] = f]
Running == tasks # NoTasks /\ tasks[1].pc = "run" /\ tasks[1].stack # <<>>

\* execute with the arguments b, up to the first call of
\* search_content_recursive
Started(b) ==
    IF ~IsStr(b.query)
    THEN /\ Ends("file_search", b, InvalidParameters("query is required", fs, <<>>))
         /\ tasks' = tasks
    ELSE /\ tasks' = <<SearchTask(b)>>
         /\ UNCHANGED <<fs, last>>

SearchStart ==
    /\ Idle
    /\ tasks = NoTasks
    /\ \E b \in SearchBundles : Started(b)
    /\ UNCHANGED <<obs, made>>

\* search_content_recursive from its entry to the first await of a loop
SearchCall ==
    /\ Running
    /\ Top(tasks[1]).kind = "call"
    /\ LET k == tasks[1]
           path == Top(k).path
           known == path \in SearchPaths
           isFile == known /\ fs[path].kind = "file"
           isDir == known /\ fs[path].kind = "dir"
           full == Full(k.results, MaxResults(k.params))
           pattern == k.params.file_pattern
           called == [k EXCEPT !.calls = Append(@, path)]
       IN \E e \in (IF ~full /\ isDir THEN Enumerations(EntryNames(fs, path)) ELSE {<<>>}) :
             tasks' = <<
                 IF full THEN Pop(called)
                 ELSE IF isFile
                 THEN IF IsStr(pattern) /\ Extension(path) # pattern.v THEN Pop(called)
                      ELSE [SetTop(called, Frame("file", path, Lines(fs[path].content), 1, <<>>))
                               EXCEPT !.read = @ \cup {path}]
                 ELSE IF isDir
                 THEN [SetTop(called, Frame("dir", path, <<>>, 0, e))
                          EXCEPT !.walked = @ \cup {path}, !.order[path] = e]
                 ELSE Pop(called) >>
    /\ UNCHANGED <<fs, last, obs, made>>

\* one turn of the loop over the lines of a file
SearchLine ==
    /\ Running
    /\ Top(tasks[1]).kind = "file"
    /\ LET k == tasks[1]
           f == Top(k)
       IN tasks' = <<
              IF f.i > Len(f.lines) THEN Pop(k)
              ELSE IF Full(k.results, MaxResults(k.params)) THEN Pop(k)
              ELSE [SetTop(k, [f EXCEPT !.i = @ + 1]) EXCEPT !.results =
                       IF LineMatches(f.lines[f.i], SearchQuery(k.params),
                                      CaseSensitive(k.params))
                       THEN Append(@, Match(f.path, f.i, f.lines[f.i]))
                       ELSE @] >>
    /\ UNCHANGED <<fs, last, obs, made>>

\* one turn of the loop over the entries of a directory
SearchEntry ==
    /\ Running
    /\ Top(tasks[1]).kind = "dir"
    /\ LET k == tasks[1]
           f == Top(k)
           rest == [f EXCEPT !.rest = Tail(@)]
       IN tasks' = <<
              IF f.rest = <<>> THEN Pop(k)
              ELSE IF Full(k.results, MaxResults(k.params)) THEN Pop(k)
              ELSE IF Pruned(Head(f.rest)) THEN SetTop(k, rest)
              ELSE [SetTop(k, rest) EXCEPT
                       !.stack = Append(@, CallFrame(Append(f.path, Head(f.rest))))] >>
    /\ UNCHANGED <<fs, last, obs, made>>

\* execute after search_content_recursive has returned: an error it
\* returned is passed on by the ? operator, anything else is a success
SearchEnd ==
    /\ Idle
    /\ tasks # NoTasks
    /\ tasks[1].pc \in {"run", "raise"}
    /\ tasks[1].stack = <<>>
    /\ Ends("file_search", tasks[1].params,
            IF tasks[1].pc = "raise" THEN ExecutionFailed("search failed", fs, <<>>)
            ELSE Ok(fs, <<>>, [matches |-> tasks[1].results,
                               total |-> Len(tasks[1].results),
                               query |-> tasks[1].params.query.v]))
    /\ tasks' = <<[tasks[1] EXCEPT !.pc = "done"]>>
    /\ UNCHANGED <<obs, made>>

NextSearch ==
    \/ Return
    \/ SearchStart
    \/ SearchCall
    \/ SearchLine
    \/ SearchEntry
    \/ SearchEnd

SpecSearch == InitSearch /\ [][NextSearch]_vars

-----------------------------------------------------------------------------
(* Properties of file_search (SpecSearch) *)

\* the cap of an invocation: max_results, 30 when none is given
CapOf(params) ==
    IF params.max_results.t = "num" /\ params.max_results.v >= 0
    THEN params.max_results.v ELSE 30

\* a name the walk is to leave out
Ignored(name) ==
    \/ (name # <<>> /\ name[1] = ".")
    \/ name \in {NameNodeModules, NameTarget, NamePycache}

\* line has the query in it, letter case counting only if asked for
HasQuery(line, params) ==
    IF params.case_sensitive.t = "bool" /\ params.case_sensitive.v
    THEN Contains(line, params.query.v)
    ELSE Contains(ToLowercase(line), ToLowercase(params.query.v))

\* the matching lines of a file, by ascending line number from i
RECURSIVE FileMatches(_, _, _, _)
FileMatches(params, path, lines, i) ==
    IF i > Len(lines) THEN <<>>
    ELSE (IF HasQuery(lines[i], params)
          THEN <<[file |-> path, line_number |-> i, content |-> Trim(lines[i])]>>
          ELSE <<>>) \o FileMatches(params, path, lines, i + 1)

\* the order in which a directory's entries come: the one the invocation
\* got if it has enumerated the directory, some order if it has not
OrderOf(k, dir) ==
    IF dir \in k.walked THEN k.order[dir]
    ELSE CHOOSE e \in Enumerations(EntryNames(fs, dir)) : TRUE

\* every matching line at or below path, in traversal order, without a cap
RECURSIVE MatchesUnder(_, _)
MatchesUnder(k, path) ==
    IF path \notin SearchPaths \/ path \in k.failed THEN <<>>
    ELSE IF fs[path].kind = "file"
    THEN IF k.params.file_pattern.t = "str" /\ Extension(path) # k.params.file_pattern.v
         THEN <<>>
         ELSE FileMatches(k.params, path, Lines(fs[path].content), 1)
    ELSE IF fs[path].kind = "dir"
    THEN LET RECURSIVE Over(_)
             Over(names) ==
                 IF names = <<>> THEN <<>>
                 ELSE (IF Ignored(Head(names)) THEN <<>>
                       ELSE MatchesUnder(k, Append(path, Head(names))))
                      \o Over(Tail(names))
         IN Over(OrderOf(k, path))
    ELSE <<>>

AllMatches(k) == MatchesUnder(k, SearchRoot(k.params))

IsPrefixSeq(a, b) == Len(a) <= Len(b) /\ Take(b, Len(a)) = a

Searching == tasks # NoTasks

\* C13: at every point of a file_search invocation the accumulated matches
\* are at most max_results (default 30) and are the first matching lines in
\* traversal order (directory entries as enumerated, lines of a file by
\* ascending 1-based number); when the invocation returns and the tree
\* searched holds more matching lines than the cap, it returns exactly cap
\* matches, and otherwise all of them.
C13_SearchCap ==
    Searching =>
        LET k == tasks[1]
            all == AllMatches(k)
            cap == CapOf(k.params)
        IN /\ Len(k.results) <= cap
           /\ IsPrefixSeq(k.results, all)
           /\ k.pc = "done" =>
                 /\ Len(all) > cap => Len(k.results) = cap
                 /\ Len(all) <= cap => k.results = all
           /\ (k.pc = "done" /\ last.op = "file_search") =>
                 /\ last.kind = "Ok"
                 /\ last.data.matches = k.results
                 /\ last.data.total = Len(k.results)

\* a search returned exactly its cap of two matches, taken from two files,
\* and left matching lines out
C13_Witness ==
    /\ Searching
    /\ tasks[1].pc = "done"
    /\ CapOf(tasks[1].params) = 2
    /\ Len(AllMatches(tasks[1])) > 2
    /\ Len(tasks[1].results) = 2
    /\ tasks[1].results[1].file # tasks[1].results[2].file

\* the names on path below the search root
BelowRoot(k, path) ==
    {path[j] : j \in (Len(SearchRoot(k.params)) + 1)..Len(path)}

\* C20: file_search never reads a file and never enumerates a directory
\* that has, below the search root, a name starting with a dot or one of
\* node_modules, target, __pycache__ on its path, and no match comes from
\* such a path.
C20_SearchPruning ==
    Searching =>
        LET k == tasks[1]
            touched == k.read \cup k.walked
                          \cup {k.results[i].file : i \in DOMAIN k.results}
        IN \A p \in touched : \A name \in BelowRoot(k, p) : ~Ignored(name)

\* a search of "." found matches and has returned, and the directory
\* target, holding a file, was not entered
C20_Witness ==
    /\ Searching
    /\ tasks[1].pc = "done"
    /\ SearchRoot(tasks[1].params) = Dot
    /\ fs[<<NameTarget>>].kind = "dir"
    /\ fs[<<NameTarget, NameMRs>>].kind = "file"
    /\ Len(tasks[1].results) >= 1
    /\ Dot \in tasks[1].walked
    /\ <<NameTarget>> \notin tasks[1].walked
    /\ <<NameTarget, NameMRs>> \notin tasks[1].read

\* "required" of each parameters_schema
SchemaRequired(op) ==
    CASE op = "file_edit" -> {"path", "new_string"}
      [] op = "file_create" -> {"path", "content"}
      [] op = "file_delete" -> {"path"}
      [] op = "file_move" -> {"source", "destination"}
      [] op = "file_info" -> {"path"}
      [] op = "directory_create" -> {"path"}
      [] op = "file_copy" -> {"source", "destination"}
      [] op = "file_search" -> {"query", "path"}
      [] OTHER -> {}

\* C14: a field that an operation's parameters_schema lists as required is
\* one whose omission execute rejects with InvalidParameters.
C14_SchemaAccuracy ==
    \A f \in SchemaRequired(last.op) :
        ~IsPresent(last.params[f]) => last.kind = "InvalidParameters"

-----------------------------------------------------------------------------
(* SpecHash: compute_line_hash applied to any line of up to MaxLen        *)
(* characters of HashChars                                                 *)

\* the UTF-8 bytes of the characters of a line: NUL, '$', 'a', DEL, e with
\* acute accent, the euro sign and a four-byte character
HashChars == {<<0>>, <<36>>, <<97>>, <<127>>, <<195, 169>>, <<226, 130, 172>>,
              <<240, 159, 152, 128>>}

RECURSIVE LinesOfLen(_)
LinesOfLen(n) ==
    IF n = 0 THEN {<<>>}
    ELSE {l \o c : l \in LinesOfLen(n - 1), c \in HashChars}

HashLines == UNION {LinesOfLen(n) : n \in 0..MaxLen}

InitHash ==
    /\ fs = OneFileDisk(NoEntry)
    /\ last = NoLast(fs)
    /\ obs = NoObs
    /\ made = NoMade
    /\ tasks = NoTasks

\* compute_line_hash(line)
Fingerprint ==
    /\ ~obs.seen
    /\ \E line \in HashLines :
          obs' = [seen |-> TRUE, line |-> 0, text |-> line,
                  hash |-> compute_line_hash(line)]
    /\ UNCHANGED <<fs, last, made, tasks>>

NextHash == Fingerprint

SpecHash == InitHash /\ [][NextHash]_vars

-----------------------------------------------------------------------------
(* Properties of the fingerprint (SpecHash) *)

\* The reference keeps h as its four bytes, lowest first, and multiplies by
\* 16777619 = 2^24 + 403 byte by byte: h * 403 with carries, plus the lowest
\* byte of h moved to the highest place; what is carried out of the highest
\* byte is the part dropped by mod 2^32.
RefSeed == <<197, 157, 28, 129>>

RefTimesPrime(h) ==
    LET t1 == h[1] * 403
        t2 == h[2] * 403 + (t1 \div 256)
        t3 == h[3] * 403 + (t2 \div 256)
        t4 == h[4] * 403 + (t3 \div 256) + h[1]
    IN <<t1 % 256, t2 % 256, t3 % 256, t4 % 256>>

RefBit(n, i) == (n \div (2 ^ i)) % 2

\* exclusive or of two bytes, bit by bit
RefXor(a, b) ==
    LET bit(i) == IF RefBit(a, i) = RefBit(b, i) THEN 0 ELSE 2 ^ i
    IN bit(0) + bit(1) + bit(2) + bit(3) + bit(4) + bit(5) + bit(6) + bit(7)

RECURSIVE RefHash(_, _)
RefHash(h, line) ==
    IF line = <<>> THEN h
    ELSE RefHash([RefTimesPrime(h) EXCEPT ![1] = RefXor(@, Head(line))], Tail(line))

\* h & 0xFFF
RefValue(line) ==
    LET h == RefHash(RefSeed, line) IN (h[2] % 16) * 256 + h[1]

RefDigit(d) ==
    CASE d = 10 -> "a" [] d = 11 -> "b" [] d = 12 -> "c" [] d = 13 -> "d"
      [] d = 14 -> "e" [] d = 15 -> "f" [] OTHER -> ToString(d)

-----------------------------------------------------------------------------
(* SpecLineEdit: hashline edits of a file whose bytes are line feed,       *)
(* carriage return and 'a'                                                 *)

LineBytes == {10, 13, 97}

RECURSIVE LineFileTexts(_)
LineFileTexts(n) ==
    IF n = 0 THEN {<<>>}
    ELSE LineFileTexts(n - 1)
            \cup {Append(c, b) : c \in {d \in LineFileTexts(n - 1) : Len(d) = n - 1},
                                 b \in LineBytes}

\* replacement texts: empty, plain, ending in a carriage return, holding a
\* line feed
LineNewStrings == {<<>>, <<36>>, <<36, 13>>, <<36, 10, 36>>}

\* the fingerprints a caller may hold: of the lines of the file, or of none
HeldHashes(content) ==
    {compute_line_hash(Lines(content)[i]) : i \in DOMAIN Lines(content)}
        \cup {<<"0", "0">>}

InitLineEdit ==
    /\ \E c \in LineFileTexts(MaxLen) : fs = OneFileDisk(FileEntry(c))
    /\ last = NoLast(fs)
    /\ obs = NoObs
    /\ made = NoMade
    /\ tasks = NoTasks

\* file_edit in hashline mode on a file the model's bound admits
LineEdit ==
    /\ Len(fs[TheFile].content) <= MaxLen
    /\ \E n \in 0..(MaxLen + 1), h \in HeldHashes(fs[TheFile].content),
          new \in LineNewStrings :
          LET b == Bundle([path |-> Str(TheFile), new_string |-> Str(new),
                           line_number |-> Num(n), hash |-> Str(h)])
          IN Completes("file_edit", b, FileEditExec(b, fs))
    /\ UNCHANGED <<obs, made, tasks>>

NextLineEdit ==
    \/ Return
    \/ LineEdit

SpecLineEdit == InitLineEdit /\ [][NextLineEdit]_vars

-----------------------------------------------------------------------------
(* Properties of hashline edits (SpecLineEdit) *)

LineEditDone ==
    /\ last.op = "file_edit"
    /\ hashline_mode(last.params)
    /\ last.kind = "Ok"

LinesAfter == Lines(fs[TheFile].content)

\* line n of the file is text and no other line has changed or moved
OnlyLineChanged(n, text) ==
    /\ Len(LinesAfter) = Len(LinesBefore)
    /\ n \in 1..Len(LinesAfter)
    /\ LinesAfter[n] = text
    /\ \A i \in 1..Len(LinesAfter) : i # n => LinesAfter[i] = LinesBefore[i]

EndsInCR(l) == l # <<>> /\ l[Len(l)] = 13

HasLF(l) == \E i \in DOMAIN l : l[i] = 10

\* C17 as stated: after a successful line-mode file_edit with line_number
\* n, line n of the file equals the replacement text and every other line
\* has the content and the position it had before.
C17_OnlyLineAsStated ==
    LineEditDone =>
        OnlyLineChanged(last.params.line_number.v, last.params.new_string.v)

\* C17 amended: the same for line max(n, 1), provided the replacement text
\* has no line feed in it, neither it nor any line of the file ends in a
\* carriage return, and the last line of the file, after the replacement,
\* is not empty.
C17_OnlyLineChanged ==
    LineEditDone =>
        LET n == IF last.params.line_number.v = 0 THEN 1 ELSE last.params.line_number.v
            new == last.params.new_string.v
            wanted == [LinesBefore EXCEPT ![n] = new]
        IN (/\ ~HasLF(new)
            /\ \A i \in DOMAIN wanted : ~EndsInCR(wanted[i])
            /\ \A i \in DOMAIN LinesBefore : ~EndsInCR(LinesBefore[i])
            /\ wanted[Len(wanted)] # <<>>)
           => OnlyLineChanged(n, new)

\* the second of two lines was replaced and the first is as it was
C17_Witness ==
    /\ LineEditDone
    /\ last.params.line_number.v = 2
    /\ Len(LinesBefore) = 2
    /\ LinesBefore[1] = <<97>>
    /\ last.params.new_string.v = <<36>>
    /\ LinesBefore[2] # <<36>>
    /\ OnlyLineChanged(2, <<36>>)

-----------------------------------------------------------------------------
(* Properties of file_edit: mode, line range, reads and writes (SpecEdit) *)

EditCall == last.op = "file_edit"

BothKeys == IsPresent(last.params.line_number) /\ IsPresent(last.params.hash)

\* C16: file_edit runs in line mode exactly when the keys line_number and
\* hash are both present; in every other case, also when one of the two is
\* present, it runs in substring mode and a missing old_string is rejected
\* with InvalidParameters.
C16_ModeSelection ==
    EditCall =>
        /\ last.kind = "Ok" =>
              last.data.mode = IF BothKeys THEN "hashline" ELSE "str_replace"
        /\ (~BothKeys /\ ~IsPresent(last.params.old_string)) =>
              last.kind = "InvalidParameters"

\* a line-mode call on a file that is there, with a line number
LineCall ==
    /\ EditCall
    /\ BothKeys
    /\ IsStr(last.params.path)
    /\ IsFile(last.before, last.params.path.v)
    /\ IsU64(last.params.line_number)

\* the line number is beyond the lines of the file, or the file has none
BeyondLines ==
    LET count == Len(Lines(last.before[last.params.path.v].content))
    IN last.params.line_number.v > count \/ count = 0

\* C18 as stated: a line-mode file_edit whose line_number is greater than
\* the number of lines of the file, or on an empty file, fails with
\* ExecutionFailed and the file is unchanged.
C18_LineRangeAsStated == (LineCall /\ BeyondLines) => EditRefused

\* C18 amended: the same, for a call whose new_string and hash are strings;
\* a call without a string new_string or with a hash that is not a string
\* fails with InvalidParameters, the file unchanged.
C18_LineRange ==
    (LineCall /\ BeyondLines) =>
        IF IsStr(last.params.new_string) /\ IsStr(last.params.hash)
        THEN EditRefused /\ last.msg = "Line does not exist"
        ELSE last.kind = "InvalidParameters" /\ fs = last.before /\ ~Wrote

\* line 1 of an empty file was asked for and refused
C18_Witness ==
    /\ LineCall
    /\ IsStr(last.params.new_string) /\ IsStr(last.params.hash)
    /\ last.before[last.params.path.v].content = <<>>
    /\ last.params.line_number.v = 1
    /\ EditRefused
    /\ last.msg = "Line does not exist"

Count(io, what) == Cardinality({i \in DOMAIN io : io[i] = what})

\* one read first, one write on success, no write on failure
OneReadAtMostOneWrite ==
    /\ Count(last.io, "read") = 1
    /\ last.io[1] = "read"
    /\ last.kind = "Ok" => (Count(last.io, "write") = 1 /\ last.io = <<"read", "write">>)
    /\ last.kind # "Ok" => (Count(last.io, "write") = 0 /\ fs = last.before)

\* C19 as stated: every file_edit invocation reads the file once, in full,
\* before it validates anything about the content, writes it once, in full,
\* when it succeeds, and does not write when a validation fails.
C19_OneReadAsStated == EditCall => OneReadAtMostOneWrite

\* C19 amended: the same for every file_edit invocation whose path and
\* new_string are strings; an invocation without them is rejected before
\* the read and neither reads nor writes.
C19_OneReadOneWrite ==
    EditCall =>
        IF EditArgsOk(last.params) THEN OneReadAtMostOneWrite
        ELSE last.io = <<>> /\ last.kind = "InvalidParameters" /\ fs = last.before

\* two occurrences were replaced under replace_all with one read and one
\* write
C19_Witness ==
    /\ StrReplaceCall
    /\ BoolOrFalse(last.params.replace_all)
    /\ last.params.old_string.v # <<>>
    /\ OccursTwiceApart(last.before[last.params.path.v].content, last.params.old_string.v)
    /\ last.kind = "Ok"
    /\ last.io = <<"read", "write">>
    /\ fs # last.before

-----------------------------------------------------------------------------
(* Properties of hashline edits with line_number 0 (SpecLineEdit) *)

\* a line-mode call with line_number 0 on a file that is not empty
LineZeroCall ==
    /\ last.op = "file_edit"
    /\ hashline_mode(last.params)
    /\ last.params.line_number = Num(0)
    /\ IsStr(last.params.hash)
    /\ IsStr(last.params.new_string)
    /\ IsFile(last.before, TheFile)
    /\ last.before[TheFile].content # <<>>

\* C22: a line-mode file_edit with line_number 0 on a file that is not
\* empty is not rejected for its line number: it does what the same call
\* with line_number 1 does; the fingerprint is compared with that of line 1
\* and, when they agree, line 1 is replaced.
C22_LineZeroIsLineOne ==
    LineZeroCall =>
        LET asOne == FileEditExec([last.params EXCEPT !.line_number = Num(1)], last.before)
        IN /\ last.kind = asOne.kind
           /\ last.msg = asOne.msg
           /\ fs = asOne.disk
           /\ IF last.params.hash.v = compute_line_hash(LinesBefore[1])
              THEN /\ last.kind = "Ok"
                   /\ fs[TheFile].content =
                         JoinLF([LinesBefore EXCEPT ![1] = last.params.new_string.v])
              ELSE EditRefused /\ last.msg = "Hash mismatch"

\* line_number 0 replaced the first of two lines
C22_Witness ==
    /\ LineZeroCall
    /\ last.kind = "Ok"
    /\ Len(LinesBefore) = 2
    /\ LinesBefore[1] = <<97>>
    /\ last.params.new_string.v = <<36>>
    /\ LinesAfter = <<(<<36>>), LinesBefore[2]>>

-----------------------------------------------------------------------------
(* Properties of hashline edits: the number of lines (SpecLineEdit) *)

HasCR(l) == \E i \in DOMAIN l : l[i] = 13

\* the lines the edit hands to join("\n")
LinesJoined ==
    LET n == IF last.params.line_number.v = 0 THEN 1 ELSE last.params.line_number.v
    IN [LinesBefore EXCEPT ![n] = last.params.new_string.v]

\* C23 as stated: after a successful line-mode file_edit whose replacement
\* text contains no line break, the file has as many lines as before the
\* edit, whatever the content of the file, also when the file ends with a
\* line feed and when the replacement is the empty string on the last line.
C23_LineCountAsStated ==
    (/\ LineEditDone
     /\ ~HasLF(last.params.new_string.v)
     /\ ~HasCR(last.params.new_string.v))
        => Len(LinesAfter) = Len(LinesBefore)

\* C23 amended: after a successful line-mode file_edit whose replacement
\* text contains no line feed, the file has as many lines as before the
\* edit when its last line, after the replacement, is not empty, and one
\* line fewer when it is empty; total_lines in the result is the new number.
C23_LineCount ==
    (LineEditDone /\ ~HasLF(last.params.new_string.v)) =>
        /\ Len(LinesAfter) =
              IF LinesJoined[Len(LinesJoined)] = <<>>
              THEN Len(LinesBefore) - 1
              ELSE Len(LinesBefore)
        /\ last.data.total_lines = Len(LinesAfter)

\* the last of two lines was replaced by the empty string and one line is
\* left
C23_Witness ==
    /\ LineEditDone
    /\ Len(LinesBefore) = 2
    /\ LinesBefore[2] # <<>>
    /\ last.params.line_number.v = 2
    /\ last.params.new_string.v = <<>>
    /\ Len(LinesAfter) = 1
    /\ last.data.total_lines = 1

-----------------------------------------------------------------------------
(* SpecSearchFaults: file_search on a tree whose files may fail to be read *)
(* as text and whose directories may fail to be listed                     *)

SearchFaultBundles ==
    {SearchBundle([query |-> Str(<<97>>), max_results |-> m]) : m \in {Absent, Num(1)}}
    \cup {SearchBundle([query |-> Str(<<97>>), path |-> Str(<<NameN>>)])}
    \cup {SearchBundle([query |-> Absent])}

SearchStartFaults ==
    /\ Idle
    /\ tasks = NoTasks
    /\ \E b \in SearchFaultBundles : Started(b)
    /\ UNCHANGED <<obs, made>>

\* the error of read_to_string is returned to the caller
ReadFailed_Raised(k, path) ==
    [k EXCEPT !.stack = <<>>, !.pc = "raise", !.failed = @ \cup {path}]

\* if let Ok(content) = read_to_string(path): on Err nothing is done and
\* the call returns Ok(())
ReadFailed(k, path) == [Pop(k) EXCEPT !.failed = @ \cup {path}]

\* search_content_recursive on a file that read_to_string cannot read as
\* text
SearchReadFails ==
    /\ Running
    /\ Top(tasks[1]).kind = "call"
    /\ LET k == tasks[1]
           path == Top(k).path
           pattern == k.params.file_pattern
       IN /\ ~Full(k.results, MaxResults(k.params))
          /\ path \in SearchPaths
          /\ fs[path].kind = "file"
          /\ ~(IsStr(pattern) /\ Extension(path) # pattern.v)
          /\ tasks' = <<ReadFailed([k EXCEPT !.calls = Append(@, path)], path)>>
    /\ UNCHANGED <<fs, last, obs, made>>

\* search_content_recursive on a directory that read_dir cannot list:
\* Err(_) => return Ok(())
SearchListFails ==
    /\ Running
    /\ Top(tasks[1]).kind = "call"
    /\ LET k == tasks[1]
           path == Top(k).path
       IN /\ ~Full(k.results, MaxResults(k.params))
          /\ path \in SearchPaths
          /\ fs[path].kind = "dir"
          /\ tasks' = <<[Pop(k) EXCEPT !.calls = Append(@, path),
                                       !.failed = @ \cup {path}]>>
    /\ UNCHANGED <<fs, last, obs, made>>

\* next_entry gives an error before the directory's last entry: the loop
\* while let Ok(Some(entry)) ends and the entries not yet given are left out
SearchNextFails ==
    /\ Running
    /\ Top(tasks[1]).kind = "dir"
    /\ Top(tasks[1]).rest # <<>>
    /\ LET k == tasks[1]
           f == Top(k)
           given == Take(k.order[f.path], Len(k.order[f.path]) - Len(f.rest))
       IN tasks' = <<[Pop(k) EXCEPT !.order[f.path] = given]>>
    /\ UNCHANGED <<fs, last, obs, made>>

NextSearchFaults ==
    \/ Return
    \/ SearchStartFaults
    \/ SearchCall
    \/ SearchReadFails
    \/ SearchListFails
    \/ SearchLine
    \/ SearchEntry
    \/ SearchNextFails
    \/ SearchEnd

SpecSearchFaults == InitSearch /\ [][NextSearchFaults]_vars

-----------------------------------------------------------------------------
(* Properties of file_search under failures (SpecSearchFaults) *)

\* the first n elements of s, all of them if there are fewer
FirstN(s, n) == IF Len(s) <= n THEN s ELSE SubSeq(s, 1, n)

RootMissing(k) ==
    SearchRoot(k.params) \notin SearchPaths \/ fs[SearchRoot(k.params)].kind = "none"

\* C21: once query is a string, file_search returns a success result; a
\* root path that does not exist, a directory that cannot be listed and a
\* file that cannot be read as text give no match and raise no error: the
\* matches returned are the first ones, up to the cap, of the rest of the
\* tree.
C21_FailuresSwallowed ==
    /\ (last.op = "file_search" /\ IsStr(last.params.query)) => last.kind = "Ok"
    /\ Searching =>
          LET k == tasks[1]
          IN /\ k.pc # "raise"
             /\ \A i \in DOMAIN k.results :
                   \A j \in 0..Len(k.results[i].file) :
                       Take(k.results[i].file, j) \notin k.failed
             /\ k.pc = "done" => k.results = FirstN(AllMatches(k), CapOf(k.params))
             /\ (k.pc = "done" /\ RootMissing(k)) => k.results = <<>>

\* a search has returned matches although a file with a matching line could
\* not be read
C21_Witness ==
    /\ Searching
    /\ tasks[1].pc = "done"
    /\ last.op = "file_search"
    /\ last.kind = "Ok"
    /\ Len(last.data.matches) >= 1
    /\ \E p \in tasks[1].failed :
          /\ fs[p].kind = "file"
          /\ FileMatches(tasks[1].params, p, Lines(fs[p].content), 1) # <<>>

\* a search has returned matches although a directory holding a file with a
\* matching line could not be listed
C21_WitnessNoListing ==
    /\ Searching
    /\ tasks[1].pc = "done"
    /\ last.op = "file_search"
    /\ last.kind = "Ok"
    /\ Len(last.data.matches) >= 1
    /\ \E d \in tasks[1].failed :
          /\ fs[d].kind = "dir"
          /\ fs[Append(d, NameMRs)].kind = "file"
          /\ FileMatches(tasks[1].params, Append(d, NameMRs),
                         Lines(fs[Append(d, NameMRs)].content), 1) # <<>>

\* a search of a root that does not exist has returned no match
C21_WitnessNoRoot ==
    /\ Searching
    /\ tasks[1].pc = "done"
    /\ RootMissing(tasks[1])
    /\ last.kind = "Ok"
    /\ last.data.total = 0

-----------------------------------------------------------------------------
(* SpecCreateRace: file_create invocations on the same path, each          *)
(* suspended at the awaits of create_dir_all and of write                  *)

\* the path the invocations create
NewFile == <<"p", "c">>

CreateRaceBundles ==
    {Bundle([path |-> Str(NewFile), content |-> Str(c), overwrite |-> o]) :
        c \in {<<97>>, <<36>>}, o \in {Absent, Bool(TRUE)}}
    \cup {Bundle([path |-> Str(NewFile)])}

\* the path absent with its parent, absent in its parent, or a file
CreateRaceDisks ==
    {[q \in Paths |-> NoEntry],
     [q \in Paths |-> IF q = Parent(NewFile) THEN DirEntry ELSE NoEntry],
     [q \in Paths |-> IF q = Parent(NewFile) THEN DirEntry
                      ELSE IF q = NewFile THEN FileEntry(<<97, 10>>) ELSE NoEntry]}

\* an invocation: where it stands, how it ended, the entry it found at the
\* path when it tested exists() (checked), the entry it found there when its
\* write was due (found) and the entry it left (wrote)
NotCreated ==
    [pc |-> "idle", params |-> Bundle([path |-> Absent]), kind |-> "none", msg |-> "",
     checked |-> NoEntry, found |-> NoEntry, wrote |-> NoEntry]

InitCreateRace ==
    /\ fs \in CreateRaceDisks
    /\ last = NoLast(fs)
    /\ obs = NoObs
    /\ made = NoMade
    /\ tasks = [t \in TaskIds |-> NotCreated]

\* the file is opened with create_new: the write fails on a path that exists
CreateWrite_New(disk, path, content, overwrite) ==
    IF Exists(disk, path) /\ ~overwrite THEN IoErr(disk)
    ELSE WriteFile(disk, path, content)

\* tokio::fs::write(&path_buf, content)
CreateWrite(disk, path, content, overwrite) == WriteFile(disk, path, content)

\* the invocation up to its first await: the arguments, path_buf.exists()
\* and parent.exists()
CreateStart(t) ==
    /\ tasks[t].pc = "idle"
    /\ \E b \in CreateRaceBundles :
          tasks' = [tasks EXCEPT ![t] =
              IF ~IsStr(b.path) \/ ~IsStr(b.content)
                    \/ CreateRefuses(fs, b.path.v, BoolOrFalse(b.overwrite))
              THEN [NotCreated EXCEPT !.pc = "done", !.params = b,
                                      !.kind = FileCreateExec(b, fs).kind,
                                      !.msg = FileCreateExec(b, fs).msg,
                                      !.checked = fs[NewFile], !.found = fs[NewFile],
                                      !.wrote = fs[NewFile]]
              ELSE [NotCreated EXCEPT !.pc = IF Exists(fs, Parent(b.path.v))
                                             THEN "write" ELSE "parents",
                                      !.params = b, !.checked = fs[NewFile]]]
    /\ UNCHANGED <<fs, last, obs, made>>

\* create_dir_all(parent), on the disk as it is by then
CreateParents(t) ==
    /\ tasks[t].pc = "parents"
    /\ LET k == tasks[t]
           d == CreateDirAll(fs, Parent(k.params.path.v))
       IN /\ fs' = d.disk
          /\ tasks' = [tasks EXCEPT ![t] =
                 IF d.ok THEN [k EXCEPT !.pc = "write"]
                 ELSE [k EXCEPT !.pc = "done", !.kind = "ExecutionFailed",
                                !.msg = "cannot create parent",
                                !.found = fs[NewFile], !.wrote = fs[NewFile]]]
    /\ UNCHANGED <<last, obs, made>>

\* the write and the result, on the disk as it is by then
CreateFinish(t) ==
    /\ tasks[t].pc = "write"
    /\ LET k == tasks[t]
           w == CreateWrite(fs, k.params.path.v, k.params.content.v,
                            BoolOrFalse(k.params.overwrite))
       IN /\ fs' = w.disk
          /\ tasks' = [tasks EXCEPT ![t] =
                 [k EXCEPT !.pc = "done",
                           !.kind = IF w.ok THEN "Ok" ELSE "ExecutionFailed",
                           !.msg = IF w.ok THEN "" ELSE "cannot create file",
                           !.found = fs[NewFile], !.wrote = w.disk[NewFile]]]
    /\ UNCHANGED <<last, obs, made>>

NextCreateRace ==
    \/ \E t \in TaskIds : CreateStart(t)
    \/ \E t \in TaskIds : CreateParents(t)
    \/ \E t \in TaskIds : CreateFinish(t)

SpecCreateRace == InitCreateRace /\ [][NextCreateRace]_vars

-----------------------------------------------------------------------------
(* Properties of racing creates (SpecCreateRace) *)

\* invocation t, with a path and a content and no overwrite, has ended
CreatedPlain(t) ==
    /\ tasks[t].pc = "done"
    /\ IsStr(tasks[t].params.path)
    /\ IsStr(tasks[t].params.content)
    /\ ~BoolOrFalse(tasks[t].params.overwrite)

\* the path was absent before the first invocation
AbsentAtFirst == last.before[NewFile].kind = "none"

\* C24 as stated: of the file_create invocations without overwrite that run
\* concurrently on the same absent path at most one succeeds, and none of
\* them replaces content that another invocation wrote to the path before
\* its own write.
C24_ConcurrentCreatesAsStated ==
    AbsentAtFirst =>
        /\ Cardinality({t \in DOMAIN tasks : CreatedPlain(t) /\ tasks[t].kind = "Ok"}) <= 1
        /\ \A t \in DOMAIN tasks :
              (CreatedPlain(t) /\ tasks[t].kind = "Ok") => tasks[t].found.kind = "none"

\* C24 amended: a file_create invocation without overwrite, its parent
\* directory being creatable, succeeds exactly when the path was absent at
\* the time of its own exists() test; it then writes its content whatever
\* the path holds by the time of its write, content written by another
\* invocation included, and otherwise it fails with ExecutionFailed and
\* writes nothing. Invocations that all test before any of them writes all
\* succeed.
C24_ConcurrentCreates ==
    \A t \in DOMAIN tasks :
        CreatedPlain(t) =>
            LET k == tasks[t]
            IN /\ k.kind = "Ok" <=> k.checked.kind = "none"
               /\ k.kind = "Ok" => k.wrote = FileEntry(k.params.content.v)
               /\ k.kind # "Ok" =>
                     /\ k.kind = "ExecutionFailed"
                     /\ k.wrote = k.found
                     /\ k.found = k.checked

\* two invocations without overwrite on an absent path have both succeeded
\* and the second has replaced the content the first wrote
C24_Witness ==
    \E t, u \in DOMAIN tasks :
        /\ t # u
        /\ AbsentAtFirst
        /\ CreatedPlain(t) /\ CreatedPlain(u)
        /\ tasks[t].kind = "Ok" /\ tasks[u].kind = "Ok"
        /\ tasks[u].found = tasks[t].wrote
        /\ tasks[u].wrote # tasks[t].wrote
        /\ fs[NewFile] = tasks[u].wrote

-----------------------------------------------------------------------------
(* SpecSearchLive: file_search with every step of the walk taken in the    *)
(* end: an await of the walk completes and the task is polled again        *)

SearchLiveBundles ==
    {SearchBundle([query |-> Str(<<97>>), max_results |-> m]) :
        m \in {Absent, Num(0), Num(1)}}
    \cup {SearchBundle([query |-> Str(<<97>>), path |-> Str(<<NameN>>)])}
    \cup {SearchBundle([query |-> Absent])}

SearchStartLive ==
    /\ Idle
    /\ tasks = NoTasks
    /\ \E b \in SearchLiveBundles : Started(b)
    /\ UNCHANGED <<obs, made>>

NextSearchLive ==
    \/ Return
    \/ SearchStartLive
    \/ SearchCall
    \/ SearchLine
    \/ SearchEntry
    \/ SearchEnd

SpecSearchLive ==
    /\ InitSearch
    /\ [][NextSearchLive]_vars
    /\ WF_vars(SearchCall)
    /\ WF_vars(SearchLine)
    /\ WF_vars(SearchEntry)
    /\ WF_vars(SearchEnd)

-----------------------------------------------------------------------------
(* Properties of the walk of file_search (SpecSearchLive) *)

\* search_content_recursive was called at most once with each path
NoRepeat(k) ==
    \A i, j \in DOMAIN k.calls : k.calls[i] = k.calls[j] => i = j

\* at most one file is being scanned, by the innermost call
OneFileAtATime(k) ==
    \A i \in DOMAIN k.stack : k.stack[i].kind = "file" => i = Len(k.stack)

\* with the cap reached, a step reads no file and lists no directory
CapStops ==
    (/\ tasks # NoTasks
     /\ tasks' # NoTasks
     /\ Len(tasks[1].results) >= CapOf(tasks[1].params))
        => /\ tasks'[1].read = tasks[1].read
           /\ tasks'[1].walked = tasks[1].walked

SearchReturned == tasks # NoTasks /\ tasks[1].pc = "done"

\* C25: on a tree that is not modified during the walk a file_search
\* invocation returns in the end; search_content_recursive is called at most
\* once with each entry, files are scanned one at a time, and once the
\* matches have reached the cap no further file is read and no further
\* directory is listed.
C25_SearchTerminates ==
    /\ [](Searching => (NoRepeat(tasks[1]) /\ OneFileAtATime(tasks[1])))
    /\ [][CapStops]_vars
    /\ (Searching ~> SearchReturned)

\* a search with cap 1 has returned its match from the first file it read
\* and left a file of the directory searched unread
C25_Witness ==
    /\ SearchReturned
    /\ CapOf(tasks[1].params) = 1
    /\ Len(tasks[1].results) = 1
    /\ Cardinality(tasks[1].read) = 1
    /\ \E p \in SearchBelow :
          /\ Len(p) = 1
          /\ fs[p].kind = "file"
          /\ ~Ignored(p[1])
          /\ SearchRoot(tasks[1].params) = Dot
          /\ p \notin tasks[1].read

====
